---- MODULE Spec2Model ----
(***************************************************************************)
(* A model of NFL-Live-Scores (app/main.py, app/services/*.py,             *)
(* app/db/crud.py, app/models.py).                                         *)
(*                                                                         *)
(* The module holds several specifications over one set of variables; a    *)
(* specification leaves the variables of the other components at their     *)
(* initial value.                                                          *)
(*   SpecResolver : the Statistics Resolver (_iter_players and its tiers) *)
(*   SpecDb       : the persistence gateway (crud.py upserts, one session)*)
(*   SpecApi      : the endpoints save_game and compute_fantasy_fullppr    *)
(*   SpecIngest   : one run of ingest_week over the database               *)
(*   SpecCache    : the scoreboard cache (get_scores_cached)               *)
(*   SpecCsv      : the season dataset cache (_load_player_stats_csv)      *)
(*   SpecAdapter  : the historical adapter (iter_players_for_game)         *)
(*   SpecPoints   : the scoring formula (_points)                          *)
(*   SpecWeeks    : the week windows (_custom_week_range)                  *)
(*   SpecNormalize: the scoreboard normalizer (_normalize)                 *)
(*                                                                         *)
(* Conventions: a JSON value read as a number is a record [t, n]: t says   *)
(* how the value is written ("num" a JSON number, "str" a plain numeric    *)
(* string, "comma" a numeric string with thousands separators, "bad" any   *)
(* other string, "null" None) and n is the number it denotes.  A Python    *)
(* dict is a sequence of [k, v] entries with distinct keys, in insertion   *)
(* order.                                                                  *)
(***************************************************************************)
EXTENDS Integers, Sequences, FiniteSets, TLC

VARIABLES
    \* ---- Statistics Resolver (fantasy.py: _iter_players) ----
    summary_json,   \* the summary payload handed to _iter_players
    rpc,            \* position of the generator: summary, html, gpj, core, done, raised
    idx,            \* next tuple of the tier being iterated
    yielded_any,    \* fantasy.py:338
    gpj,            \* the gamepackageJSON found by tier 2 (fantasy.py:351)
    coreOps,        \* what is left of the graph walk of tier 3
    yielded,        \* the tuples yielded so far
    htmlFetches,    \* HTTP requests issued by _fetch_boxscore_fitt
    coreFetches,    \* HTTP requests issued by _core_fetch_json
    \* ---- Persistence (models.py tables, one SQLAlchemy session) ----
    db,             \* the committed rows of every table
    sess,           \* the upsert calls of the session's transaction, in order
    tx,             \* "open": sess is pending; "committed" / "failed": how the
                    \* transaction that made the calls of sess ended
    \* ---- Endpoints (main.py: save_game, compute_fantasy_fullppr) ----
    response,       \* the response of the last request
    \* ---- Bulk ingestion (main.py: ingest_week) ----
    ipc,            \* "idle", "running" (in the loop), "done" (returned), "failed"
    request,        \* the year and week asked for, and the range of dates fetched
    events,         \* main.py:390
    eidx,           \* index in events of the next game
    do_score,       \* the query parameter score
    saved,          \* main.py:391
    scored,
    errors,
    glog,           \* history: per game processed, the outcome of its two stages
                    \* and the committed rows before, between and after them
    \* ---- Scoreboard cache (scores.py: get_scores_cached) ----
    cache,          \* _cache: per key, the entry and the time left to its expiry
    lock,           \* _lock: the caller that holds it, 0 when it is free
    waiters,        \* the callers suspended in _lock.acquire(), first come first
    callers,        \* per caller of get_scores_cached: where it is, the attempts
                    \* it has started, and its result
    \* ---- Season dataset cache (nflfastr.py: _load_player_stats_csv) ----
    csv_cache,      \* _csv_cache: per season, the entry and now - fetched
    threads,        \* per thread in _load_player_stats_csv: where it is, the
                    \* time since it read the clock (nflfastr.py:288), its result
    since,          \* history: per season, the time since a download last began
    \* ---- Historical adapter (nflfastr.py: iter_players_for_game) ----
    csv_rows,       \* the rows of the season dataset (csv.DictReader)
    args,           \* the arguments of the last call
    emitted,        \* what the last call yielded
    \* ---- Scoring formula (fantasy.py: _points) ----
    stat_maps,      \* two stat maps with no key in common
    rule,           \* the scoring rule
    points,         \* _points of the first map, the second and their union
    \* ---- Week windows (scores.py: _custom_week_range) ----
    week_ranges,    \* the start of week 1, two weeks and the ranges computed
    \* ---- Scoreboard normalizer (scores.py: _normalize) ----
    espn_json,      \* the events of the upstream scoreboard
    scores_payload  \* the games _normalize returned, or that it raised

resolverVars == <<summary_json, rpc, idx, yielded_any, gpj, coreOps, yielded,
                  htmlFetches, coreFetches>>

dbVars == <<db, sess, tx>>

apiVars == <<response>>

ingestVars == <<ipc, request, events, eidx, do_score, saved, scored, errors, glog>>

cacheVars == <<cache, lock, waiters, callers>>

csvVars == <<csv_cache, threads, since>>

adapterVars == <<csv_rows, args, emitted>>

pointsVars == <<stat_maps, rule, points>>

nflfastrVars == <<csvVars, adapterVars, pointsVars>>

weeksVars == <<week_ranges>>

normalizeVars == <<espn_json, scores_payload>>

scoresVars == <<weeksVars, normalizeVars>>

vars == <<resolverVars, dbVars, apiVars, ingestVars, cacheVars, nflfastrVars, scoresVars>>

\* what each component leaves alone
nonResolverVars == <<dbVars, apiVars, ingestVars, cacheVars, nflfastrVars, scoresVars>>
nonDbVars == <<resolverVars, apiVars, ingestVars, cacheVars, nflfastrVars, scoresVars>>
nonApiVars == <<resolverVars, sess, tx, ingestVars, cacheVars, nflfastrVars, scoresVars>>
nonIngestVars == <<resolverVars, sess, tx, apiVars, cacheVars, nflfastrVars, scoresVars>>
nonCacheVars == <<resolverVars, dbVars, apiVars, ingestVars, nflfastrVars, scoresVars>>
nonCsvVars == <<resolverVars, dbVars, apiVars, ingestVars, cacheVars, adapterVars,
                pointsVars, scoresVars>>
nonAdapterVars == <<resolverVars, dbVars, apiVars, ingestVars, cacheVars, threads,
                    pointsVars, scoresVars>>
nonPointsVars == <<resolverVars, dbVars, apiVars, ingestVars, cacheVars, csvVars,
                   adapterVars, scoresVars>>

everythingElse == <<resolverVars, dbVars, apiVars, ingestVars, cacheVars, nflfastrVars>>
nonWeeksVars == <<everythingElse, normalizeVars>>
nonNormalizeVars == <<everythingElse, weeksVars>>

\* models.py: the rows of each table, none yet; a row names the rows it refers
\* to by their natural key
EmptyDb ==
    [teams |-> {}, players |-> {}, seasons |-> {}, games |-> {},
     game_teams |-> {}, player_stats |-> {}, scoring_rules |-> {}]

\* the components a specification does not run stay as constructed
SessIdle == sess = <<>> /\ tx = "committed"

DbIdle == db = EmptyDb /\ SessIdle

NoResp == [op |-> "none", event_id |-> "", code |-> 0, detail |-> "", resave |-> FALSE,
           parsed |-> 0, fetched |-> FALSE, defect |-> FALSE, nowindow |-> FALSE]

ApiIdle == response = NoResp

NoRequest == [year |-> 0, week |-> 0, dates |-> <<>>]

IngestIdle ==
    /\ ipc = "idle"
    /\ request = NoRequest
    /\ events = <<>>
    /\ eidx = 1
    /\ do_score = FALSE
    /\ saved = <<>>
    /\ scored = <<>>
    /\ errors = <<>>
    /\ glog = <<>>

\* bound of the model: callers of get_scores_cached that run at the same time
MaxCallers == 2

Callers == 1..MaxCallers

\* the cache keys of scores.py:220 the callers ask for: the current slate
Keys == {"current"}

NoEntry == [present |-> FALSE, source |-> "", left |-> 0, age |-> 0]

IdleCaller ==
    [pc |-> "idle", key |-> "current", attempt |-> 0, sleep |-> 0,
     waited |-> FALSE, fresh |-> FALSE, result |-> "", source |-> ""]

\* nflfastr.py:42: 20 * 60
CSV_TTL_SECONDS == 1200

\* the time is counted in steps of ten minutes
TenMinutes(seconds) == seconds \div 600

MaxThreads == 2

Threads == 1 .. MaxThreads

Seasons == {2024, 2025}

NoCsv == [present |-> FALSE, age |-> 0]

IdleThread == [pc |-> "idle", season |-> 2024, elapsed |-> 0, result |-> ""]

CsvIdle ==
    /\ csv_cache = [s \in Seasons |-> NoCsv]
    /\ threads = [t \in Threads |-> IdleThread]
    /\ since = [s \in Seasons |-> TenMinutes(CSV_TTL_SECONDS)]

NoGame == [season |-> 0, overall_week |-> 0, home_abbr |-> "", away_abbr |-> ""]

NoOut == [yielded |-> <<>>, fallback |-> FALSE]

NoDataset == [cols |-> {}, recs |-> <<>>]

AdapterIdle == csv_rows = NoDataset /\ args = NoGame /\ emitted = NoOut

NoRule == [name |-> ""]

NoPoints == [first |-> <<>>, second |-> <<>>, merged |-> <<>>]

PointsIdle == stat_maps = <<>> /\ rule = NoRule /\ points = NoPoints

NflfastrIdle == CsvIdle /\ AdapterIdle /\ PointsIdle

NoRanges == [pc |-> "idle", week1_start |-> 0, weeks |-> <<>>, ranges |-> <<>>]

WeeksIdle == week_ranges = NoRanges

NoGames == [pc |-> "idle", games |-> <<>>]

NormalizeIdle == espn_json = <<>> /\ scores_payload = NoGames

ScoresIdle == WeeksIdle /\ NormalizeIdle

CacheIdle ==
    /\ cache = [k \in Keys |-> NoEntry]
    /\ lock = 0
    /\ waiters = <<>>
    /\ callers = [c \in Callers |-> IdleCaller]

----------------------------------------------------------------------------
(* Bounds of the model *)

\* athlete rows per statistic group of a payload
MaxRows == 2
\* roster entries per competitor of the graph API
MaxRoster == 2
\* upsert calls of one transaction (SpecDb)
MaxCalls == 2

----------------------------------------------------------------------------
(* JSON values and Python dicts *)

Num(n)   == [t |-> "num", n |-> n]
Str(n)   == [t |-> "str", n |-> n]
Comma(n) == [t |-> "comma", n |-> n]
Bad      == [t |-> "bad", n |-> 0]
Null     == [t |-> "null", n |-> 0]

\* d.get(k) is not None / k in d
HasKey(d, k) == \E i \in 1..Len(d) : d[i].k = k

\* d[k]
Lookup(d, k) == d[CHOOSE i \in 1..Len(d) : d[i].k = k].v

\* d[k] = v: an existing key keeps its place
DictSet(d, k, v) ==
    IF HasKey(d, k)
    THEN [i \in 1..Len(d) |-> IF d[i].k = k THEN [k |-> k, v |-> v] ELSE d[i]]
    ELSE Append(d, [k |-> k, v |-> v])

\* d.setdefault(k, v)
DictSetDefault(d, k, v) == IF HasKey(d, k) THEN d ELSE DictSet(d, k, v)

\* str.upper() on the position and team codes the inputs use
Upper(s) ==
    CASE s = "qb" -> "QB"
      [] s = "kc" -> "KC"
      [] OTHER -> s

----------------------------------------------------------------------------
(* fantasy.py: _summary_players_iter *)

\* fantasy.py:119-126: float(v), else float(str(v).replace(",", "")), else 0.0
coerce_num(v) ==
    CASE v.t = "num"   -> v.n
      [] v.t = "str"   -> v.n
      [] v.t = "comma" -> v.n
      [] OTHER         -> 0

\* fantasy.py:128-138
ALIASES(k) ==
    CASE k = "passingYds"   -> "passingYards"
      [] k = "passingTDs"   -> "passingTouchdowns"
      [] k = "ints"         -> "interceptions"
      [] k = "rushingYds"   -> "rushingYards"
      [] k = "rushingTDs"   -> "rushingTouchdowns"
      [] k = "receivingYds" -> "receivingYards"
      [] k = "receivingTDs" -> "receivingTouchdowns"
      [] k = "rec"          -> "receptions"
      [] k = "fumbles"      -> "fumblesLost"
      [] OTHER              -> k

AliasKeys == {"passingYds", "passingTDs", "ints", "rushingYds", "rushingTDs",
              "receivingYds", "receivingTDs", "rec", "fumbles"}

CanonicalKeys == <<"passingYards", "passingTouchdowns", "interceptions",
                   "rushingYards", "rushingTouchdowns", "receivingYards",
                   "receivingTouchdowns", "receptions", "fumblesLost">>

\* fantasy.py:165-173: for k, v in d.items(): stats[k] = coerce_num(v)
RECURSIVE CoerceInto(_, _, _)
CoerceInto(stats, d, i) ==
    IF i > Len(d) THEN stats
    ELSE CoerceInto(DictSet(stats, d[i].k, Num(coerce_num(d[i].v))), d, i + 1)

\* fantasy.py:174-186: raw_stats as a list of {name, abbreviation, value};
\* "" stands for a key the entry does not have
RECURSIVE ListInto(_, _, _)
ListInto(stats, l, i) ==
    IF i > Len(l) THEN stats
    ELSE LET sc   == l[i]
             val  == Num(coerce_num(sc.v))
             s1   == IF sc.name # "" THEN DictSet(stats, sc.name, val) ELSE stats
             s2   == CASE sc.abbr = "INT" -> DictSetDefault(s1, "interceptions", val)
                       [] sc.abbr = "REC" -> DictSetDefault(s1, "receptions", val)
                       [] OTHER           -> s1
         IN  ListInto(s2, l, i + 1)

\* fantasy.py:163-186: the stats dict of one athlete row
RowStats(row) ==
    LET s0 == IF row.totals.isDict THEN CoerceInto(<<>>, row.totals.items, 1) ELSE <<>>
    IN  CASE row.stats.shape = "dict" -> CoerceInto(s0, row.stats.items, 1)
          [] row.stats.shape = "list" -> ListInto(s0, row.stats.items, 1)
          [] OTHER                    -> s0

\* A mutant of Canonicalize: the alias is applied without the has_true_fumbles_lost guard
RECURSIVE CanonicalizeNoGuard(_, _, _)
CanonicalizeNoGuard(stats, out, i) ==
    IF i > Len(stats) THEN out
    ELSE CanonicalizeNoGuard(stats,
             DictSet(out, ALIASES(stats[i].k), Num(coerce_num(stats[i].v))), i + 1)

\* fantasy.py:188-194
RECURSIVE Canonicalize(_, _, _)
Canonicalize(stats, out, i) ==
    IF i > Len(stats) THEN out
    ELSE LET k     == stats[i].k
             canon == ALIASES(k)
             has_true_fumbles_lost == HasKey(stats, "fumblesLost")
         IN  IF canon = "fumblesLost" /\ has_true_fumbles_lost /\ k # "fumblesLost"
             THEN Canonicalize(stats, out, i + 1)
             ELSE Canonicalize(stats, DictSet(out, canon, Num(coerce_num(stats[i].v))), i + 1)

\* fantasy.py:158-199: the tuples of one statistic group
RECURSIVE GroupTuples(_, _, _)
GroupTuples(team_abbr, grp, i) ==
    IF i > Len(grp.athletes) THEN <<>>
    ELSE LET row == grp.athletes[i]
             use_pos == Upper(IF row.apos # "" THEN row.apos ELSE grp.pos)
         IN  (IF row.athlete = "" THEN <<>>
              \* raw is not part of the tuple: it records the row the tuple was made from
              ELSE << [team |-> team_abbr, pos |-> use_pos, athlete |-> row.athlete,
                       raw |-> row,
                       stats |-> Canonicalize(RowStats(row), <<>>, 1)] >>)
             \o GroupTuples(team_abbr, grp, i + 1)

RECURSIVE GroupsTuples(_, _, _)
GroupsTuples(team_abbr, groups, i) ==
    IF i > Len(groups) THEN <<>>
    ELSE GroupTuples(team_abbr, groups[i], 1) \o GroupsTuples(team_abbr, groups, i + 1)

\* fantasy.py:141-150: one team of boxscore.teams
TeamTuples(t) ==
    LET team_abbr == Upper(t.abbr)
        groups == (IF t.players.isList THEN t.players.groups ELSE <<>>)
                  \o (IF t.statistics.isList THEN t.statistics.groups ELSE <<>>)
    IN  IF team_abbr = "" THEN <<>> ELSE GroupsTuples(team_abbr, groups, 1)

RECURSIVE TeamsTuples(_, _)
TeamsTuples(teams, i) ==
    IF i > Len(teams) THEN <<>>
    ELSE TeamTuples(teams[i]) \o TeamsTuples(teams, i + 1)

\* fantasy.py:111-199: every tuple the generator yields, in order
_summary_players_iter(payload) == TeamsTuples(payload.teams, 1)

----------------------------------------------------------------------------
(* fantasy.py: the graph walk of tier 3, _core_players_iter *)

(* The walk is the sequence of its effects in program order: "fetch" one   *)
(* call of _core_fetch_json, "yield" one tuple handed to the caller,       *)
(* "raise" an exception that leaves the generator.  Nothing follows a      *)
(* raise.                                                                  *)
NoRow == [athlete |-> "", apos |-> "", totals |-> [isDict |-> FALSE, items |-> <<>>],
          stats |-> [shape |-> "none", items |-> <<>>]]
NoTuple == [team |-> "", pos |-> "", athlete |-> "", raw |-> NoRow, stats |-> <<>>]
OpFetch == [op |-> "fetch", tup |-> NoTuple]
OpRaise == [op |-> "raise", tup |-> NoTuple]
OpYield(t) == [op |-> "yield", tup |-> t]

Raises(ops) == \E i \in 1..Len(ops) : ops[i].op = "raise"

\* ops1 then ops2, unless ops1 raised
Then(ops1, ops2) == IF Raises(ops1) THEN ops1 ELSE ops1 \o ops2

\* fantasy.py:301-307: stats[k] = v for every metric with a name and a value
RECURSIVE CoreStats(_, _, _)
CoreStats(stats, metrics, i) ==
    IF i > Len(metrics) THEN stats
    ELSE CoreStats(IF metrics[i].k # "" /\ metrics[i].v.t # "null"
                   THEN DictSet(stats, metrics[i].k, metrics[i].v)
                   ELSE stats,
                   metrics, i + 1)

\* fantasy.py:279-309: one roster entry
CoreItemOps(team_abbr, item) ==
    LET athOps == IF item.isRef THEN <<OpFetch>> ELSE <<>>
    IN  IF item.isRef /\ ~item.refOk THEN athOps                      \* 282-283: continue
        ELSE athOps \o <<OpFetch>> \o
             (IF ~item.statsOk THEN <<>>                              \* 298-299: continue
              ELSE << OpYield([team |-> team_abbr, pos |-> Upper(item.pos),
                               athlete |-> item.id, raw |-> NoRow,
                               stats |-> CoreStats(<<>>, item.metrics, 1)]) >>)

RECURSIVE CoreRosterOps(_, _, _)
CoreRosterOps(team_abbr, items, i) ==
    IF i > Len(items) THEN <<>>
    ELSE Then(CoreItemOps(team_abbr, items[i]), CoreRosterOps(team_abbr, items, i + 1))

\* fantasy.py:258-309: one competitor
CoreTeamOps(c) ==
    LET refOps  == IF c.isRef THEN <<OpFetch>> ELSE <<>>              \* 260-261
        \* _core_resolve_team_info, 232-247: a failed team fetch gives {}
        infoOps == IF c.team \in {"ref", "refFail"} THEN <<OpFetch>> ELSE <<>>
        team_abbr == IF c.team \in {"inline", "ref"} THEN Upper(c.abbr) ELSE ""
    IN  IF c.isRef /\ ~c.refOk THEN refOps \o <<OpRaise>>             \* 261 is not guarded
        ELSE refOps \o infoOps \o
             (IF team_abbr = "" \/ c.id = "" THEN <<>>                \* 269-270
              ELSE <<OpFetch>> \o                                     \* 275
                   (IF ~c.rosterOk THEN <<>>                          \* 276-277
                    ELSE CoreRosterOps(team_abbr, c.items, 1)))

RECURSIVE CoreTeamsOps(_, _)
CoreTeamsOps(teams, i) ==
    IF i > Len(teams) THEN <<>>
    ELSE Then(CoreTeamOps(teams[i]), CoreTeamsOps(teams, i + 1))

\* fantasy.py:209-230: the competitor list and the fetch it may cost
_core_competitor_items(comp) ==
    CASE comp.shape \in {"items", "list"} -> [ops |-> <<>>, teams |-> comp.teams]
      [] comp.shape = "ref"               -> [ops |-> <<OpFetch>>, teams |-> comp.teams]
      [] comp.shape = "refFail"           -> [ops |-> <<OpFetch>>, teams |-> <<>>]
      [] OTHER                            -> [ops |-> <<>>, teams |-> <<>>]

\* fantasy.py:249-309
_core_players_iter(graph) ==
    IF ~graph.compOk THEN <<OpFetch, OpRaise>>                        \* 255 is not guarded
    ELSE LET ci == _core_competitor_items(graph)
         IN  <<OpFetch>> \o ci.ops \o CoreTeamsOps(ci.teams, 1)

----------------------------------------------------------------------------
(* fantasy.py: _points, on integers: weights and points in hundredths *)

\* float(stats.get(k, 0) or 0) raises on a string that is no number
GiRaises(stats, k) == HasKey(stats, k) /\ Lookup(stats, k).t \in {"comma", "bad"}

gi(stats, k) == IF HasKey(stats, k) THEN Lookup(stats, k).n ELSE 0

PointsRaises(stats) == \E i \in 1..Len(CanonicalKeys) : GiRaises(stats, CanonicalKeys[i])

----------------------------------------------------------------------------
(* The inputs of the Statistics Resolver *)

\* every sequence over S of length at most n
SeqUpTo(S, n) == UNION {[1..m -> S] : m \in 0..n}

NoDict == [isDict |-> FALSE, items |-> <<>>]
KV(k, v) == [k |-> k, v |-> v]
DictStats(items) == [shape |-> "dict", items |-> items]
ListStats(items) == [shape |-> "list", items |-> items]

\* the `stats` member of an athlete row, in the shapes fantasy.py:170-186 reads
StatInputs ==
    { DictStats(<<KV("fumblesLost", Num(1)), KV("fumbles", Num(2))>>),
      DictStats(<<KV("fumbles", Str(2)), KV("fumblesLost", Comma(1))>>),
      DictStats(<<KV("passingYds", Comma(3)), KV("rushingYards", Bad)>>),
      DictStats(<<KV("rec", Num(2)), KV("receptions", Null), KV("sacks", Num(1))>>),
      ListStats(<<[name |-> "fumbles", abbr |-> "FUM", v |-> Num(2)],
                  [name |-> "", abbr |-> "REC", v |-> Str(3)],
                  [name |-> "fumblesLost", abbr |-> "", v |-> Bad]>>),
      [shape |-> "none", items |-> <<>>] }

Row(a, apos, totals, st) == [athlete |-> a, apos |-> apos, totals |-> totals, stats |-> st]

Rows ==
    { Row(a, "", NoDict, st) : a \in {"p1", "p2"}, st \in StatInputs }
    \cup { Row("p1", "QB", [isDict |-> TRUE, items |-> <<KV("fumblesLost", Num(3))>>],
               DictStats(<<KV("fumbles", Num(2))>>)),
           Row("", "", NoDict, DictStats(<<KV("rushingYards", Num(1))>>)) }

NotList == [isList |-> FALSE, groups |-> <<>>]
Groups(gs) == [isList |-> TRUE, groups |-> gs]
Group(pos, athletes) == [pos |-> pos, athletes |-> athletes]

Payload(header, teams) == [header |-> header, teams |-> teams]
Team(abbr, players, statistics) ==
    [abbr |-> abbr, players |-> players, statistics |-> statistics]

\* header.id, header.competitions[0].id; "" when absent
HeaderId   == [id |-> "E1", compId |-> ""]
HeaderComp == [id |-> "", compId |-> "E1"]
HeaderNone == [id |-> "", compId |-> ""]

\* payloads whose tier-1 shape holds athletes
FullPayloads ==
    { Payload(HeaderId, <<Team("KC", Groups(<<Group("", as)>>), NotList)>>) :
        as \in SeqUpTo(Rows, MaxRows) }
    \cup { Payload(HeaderId, <<Team("kc", NotList, Groups(<<Group("qb", <<r>>)>>))>>) :
        r \in Rows }
    \cup { Payload(HeaderId, <<Team("KC", Groups(<<Group("qb", <<Row("p1", "", NoDict, s1)>>)>>),
                                          Groups(<<Group("", <<Row(a, "", NoDict, s2)>>)>>))>>) :
        s1 \in StatInputs, s2 \in StatInputs, a \in {"p1", "p2"} }

\* payloads without a usable tier-1 shape
EmptyTeams ==
    { <<>>,
      <<Team("KC", NotList, NotList)>>,
      <<Team("", Groups(<<Group("", <<Row("p1", "", NoDict, DictStats(<<>>))>>)>>), NotList)>>,
      <<Team("KC", Groups(<<Group("", <<Row("", "", NoDict, DictStats(<<>>))>>)>>), NotList)>> }

EmptyPayloads ==
    { Payload(h, ts) : h \in {HeaderId, HeaderComp, HeaderNone}, ts \in EmptyTeams }

SummaryPayloads == FullPayloads \cup EmptyPayloads

\* what _fetch_boxscore_fitt and _fitt_gamepackage_json can give for the page
GpjPayloads ==
    { p \in FullPayloads : p.teams[1].abbr = "kc" }
    \cup { Payload(HeaderId, ts) : ts \in EmptyTeams }

\* fetch: "httpError" raise_for_status raises, "noMatch" no blob in the page,
\* "badJson" the blob does not parse, "root" a boot object; hasGpj: one of the
\* four paths of _fitt_gamepackage_json resolves to a dict
HtmlResponses ==
    { [fetch |-> f, hasGpj |-> FALSE, gpj |-> Payload(HeaderNone, <<>>)] :
        f \in {"httpError", "noMatch", "badJson", "root"} }
    \cup { [fetch |-> "root", hasGpj |-> TRUE, gpj |-> p] : p \in GpjPayloads }

Metric(k, v) == [k |-> k, v |-> v]
Item(isRef, refOk, id, statsOk, metrics) ==
    [isRef |-> isRef, refOk |-> refOk, id |-> id, pos |-> "qb",
     statsOk |-> statsOk, metrics |-> metrics]

CoreItems ==
    { Item(FALSE, TRUE, "p1", TRUE, <<Metric("passingYards", Num(2)), Metric("", Num(1))>>),
      Item(TRUE, TRUE, "p1", TRUE, <<Metric("passingYds", Num(3)), Metric("fumbles", Null)>>),
      Item(TRUE, TRUE, "p2", TRUE, <<Metric("rushingYards", Bad)>>),
      Item(FALSE, TRUE, "p2", TRUE, <<Metric("receptions", Comma(3))>>),
      Item(TRUE, FALSE, "p2", TRUE, <<>>),
      Item(FALSE, TRUE, "p1", FALSE, <<>>) }

Competitor(isRef, refOk, team, id, rosterOk, items) ==
    [isRef |-> isRef, refOk |-> refOk, team |-> team, abbr |-> "kc", id |-> id,
     rosterOk |-> rosterOk, items |-> items]

Graph(compOk, shape, teams) == [compOk |-> compOk, shape |-> shape, teams |-> teams]

OneItem == <<Item(FALSE, TRUE, "p1", TRUE, <<Metric("passingYards", Num(2))>>)>>

CoreGraphs ==
    { Graph(FALSE, "list", <<>>) }
    \cup { Graph(TRUE, shape, <<Competitor(r[1], r[2], team, id, rosterOk, OneItem)>>) :
             shape \in {"list", "ref", "refFail", "none"},
             r \in {<<FALSE, TRUE>>, <<TRUE, TRUE>>, <<TRUE, FALSE>>},
             team \in {"inline", "ref", "refFail", "none"},
             id \in {"", "1"},
             rosterOk \in BOOLEAN }
    \cup { Graph(TRUE, "items", <<Competitor(FALSE, TRUE, "inline", "1", TRUE, items)>>) :
             items \in SeqUpTo(CoreItems, MaxRoster) }
    \cup { Graph(TRUE, "list", <<Competitor(TRUE, FALSE, "inline", "1", TRUE, OneItem),
                                 Competitor(FALSE, TRUE, "inline", "2", TRUE, OneItem)>>),
           Graph(TRUE, "list", <<Competitor(FALSE, TRUE, "inline", "1", FALSE, OneItem),
                                 Competitor(FALSE, TRUE, "inline", "2", TRUE, OneItem)>>) }

----------------------------------------------------------------------------
(* fantasy.py: _iter_players, one action per stretch between two yields *)

\* fantasy.py:314-326
_extract_event_id_from_summary(summary) ==
    IF summary.header.id # "" THEN summary.header.id ELSE summary.header.compId

NoPayload == Payload(HeaderNone, <<>>)

ResolverInit ==
    /\ summary_json \in SummaryPayloads
    /\ rpc = "summary"
    /\ idx = 1
    /\ yielded_any = FALSE
    /\ gpj = NoPayload
    /\ coreOps = <<>>
    /\ yielded = <<>>
    /\ htmlFetches = 0
    /\ coreFetches = 0
    /\ DbIdle
    /\ ApiIdle
    /\ IngestIdle
    /\ CacheIdle /\ NflfastrIdle /\ ScoresIdle

\* fantasy.py:360-362: tier 3 starts; the graph is what upstream will answer
EnterCore ==
    \E graph \in CoreGraphs :
        /\ rpc' = "core"
        /\ coreOps' = _core_players_iter(graph)

\* fantasy.py:341-343
SummaryYield ==
    /\ rpc = "summary"
    /\ idx <= Len(_summary_players_iter(summary_json))
    /\ yielded' = Append(yielded, [tier |-> 1, tup |-> _summary_players_iter(summary_json)[idx]])
    /\ yielded_any' = TRUE
    /\ idx' = idx + 1
    /\ UNCHANGED <<summary_json, rpc, gpj, coreOps, htmlFetches, coreFetches,
                   nonResolverVars>>

\* A mutant of SummaryEnd: tier 2 is tried although tier 1 yielded
SummaryEndNoReturn ==
    /\ rpc = "summary"
    /\ idx > Len(_summary_players_iter(summary_json))
    /\ rpc' = IF _extract_event_id_from_summary(summary_json) # "" THEN "html" ELSE "done"
    /\ UNCHANGED <<summary_json, idx, yielded_any, gpj, coreOps, yielded,
                   htmlFetches, coreFetches,
                   nonResolverVars>>

\* fantasy.py:344-349: the summary is exhausted
SummaryEnd ==
    /\ rpc = "summary"
    /\ idx > Len(_summary_players_iter(summary_json))
    /\ rpc' = IF yielded_any THEN "done"
              ELSE IF _extract_event_id_from_summary(summary_json) # "" THEN "html"
              ELSE "done"
    /\ UNCHANGED <<summary_json, idx, yielded_any, gpj, coreOps, yielded,
                   htmlFetches, coreFetches,
                   nonResolverVars>>

\* fantasy.py:350-352 with _fetch_boxscore_fitt (33-59) and _fitt_gamepackage_json (62-83)
FetchHtml ==
    /\ rpc = "html"
    /\ htmlFetches' = htmlFetches + 1
    /\ \E resp \in HtmlResponses :
         \/ /\ resp.fetch = "httpError"          \* r.raise_for_status(), not caught
            /\ rpc' = "raised"
            /\ UNCHANGED <<gpj, coreOps, idx>>
         \/ /\ resp.fetch # "httpError"
            /\ resp.fetch = "root" /\ resp.hasGpj
            /\ rpc' = "gpj"
            /\ gpj' = resp.gpj
            /\ idx' = 1
            /\ UNCHANGED coreOps
         \/ /\ resp.fetch # "httpError"
            /\ ~(resp.fetch = "root" /\ resp.hasGpj)
            /\ EnterCore
            /\ UNCHANGED <<gpj, idx>>
    /\ UNCHANGED <<summary_json, yielded_any, yielded, coreFetches, nonResolverVars>>

\* fantasy.py:353-355
GpjYield ==
    /\ rpc = "gpj"
    /\ idx <= Len(_summary_players_iter(gpj))
    /\ yielded' = Append(yielded, [tier |-> 2, tup |-> _summary_players_iter(gpj)[idx]])
    /\ yielded_any' = TRUE
    /\ idx' = idx + 1
    /\ UNCHANGED <<summary_json, rpc, gpj, coreOps, htmlFetches, coreFetches,
                   nonResolverVars>>

\* fantasy.py:356-360
GpjEnd ==
    /\ rpc = "gpj"
    /\ idx > Len(_summary_players_iter(gpj))
    /\ IF yielded_any
       THEN rpc' = "done" /\ UNCHANGED coreOps
       ELSE EnterCore
    /\ UNCHANGED <<summary_json, idx, yielded_any, gpj, yielded, htmlFetches, coreFetches,
                   nonResolverVars>>

\* the first yield or raise of a walk, 0 when it only fetches from here on
FirstStop(ops) ==
    IF \E i \in 1..Len(ops) : ops[i].op # "fetch"
    THEN CHOOSE i \in 1..Len(ops) :
             /\ ops[i].op # "fetch"
             /\ \A j \in 1..(i - 1) : ops[j].op = "fetch"
    ELSE 0

\* fantasy.py:361-362: the graph walk runs to its next yield, its end or an exception
CoreAdvance ==
    /\ rpc = "core"
    /\ LET j == FirstStop(coreOps)
       IN  IF j = 0
           THEN /\ coreFetches' = coreFetches + Len(coreOps)
                /\ rpc' = "done"
                /\ coreOps' = <<>>
                /\ UNCHANGED yielded
           ELSE /\ coreFetches' = coreFetches + (j - 1)
                /\ coreOps' = SubSeq(coreOps, j + 1, Len(coreOps))
                /\ IF coreOps[j].op = "raise"
                   THEN rpc' = "raised" /\ UNCHANGED yielded
                   ELSE /\ rpc' = "core"
                        /\ yielded' = Append(yielded, [tier |-> 3, tup |-> coreOps[j].tup])
    /\ UNCHANGED <<summary_json, idx, yielded_any, gpj, htmlFetches, nonResolverVars>>

ResolverNext ==
    \/ SummaryYield
    \/ SummaryEnd
    \/ FetchHtml
    \/ GpjYield
    \/ GpjEnd
    \/ CoreAdvance

SpecResolver == ResolverInit /\ [][ResolverNext]_vars

----------------------------------------------------------------------------
(* Claims about the Statistics Resolver, checked under SpecResolver *)

YieldedBy(tier) == \E i \in 1..Len(yielded) : yielded[i].tier = tier

\* C1: the tiers short-circuit: once tier 1 has yielded a tuple no rendered-page
\* fetch and no graph-API fetch is ever issued, and once tier 2 has yielded a
\* tuple no graph-API fetch is ever issued.
C1_TiersShortCircuit ==
    /\ YieldedBy(1) => (htmlFetches = 0 /\ coreFetches = 0)
    /\ YieldedBy(2) => coreFetches = 0
    /\ coreFetches > 0 => htmlFetches > 0

C1_Witness ==
    /\ rpc = "done"
    /\ YieldedBy(1)
    /\ _extract_event_id_from_summary(summary_json) # ""

\* C2: no failure inside a tier leaves _iter_players: the generator never ends
\* by raising to its caller.
C2_NoTierFailurePropagates == rpc # "raised"

\* C3: the resolver yields at most one tuple per player of a team.
C3_OneTuplePerPlayer ==
    \A i, j \in 1..Len(yielded) :
        (yielded[i].tup.team = yielded[j].tup.team
         /\ yielded[i].tup.athlete = yielded[j].tup.athlete) => i = j

\* C4: every yielded stat map, of whatever tier, has canonical keys in place of
\* the known aliases and numeric values only, so that _points never raises on it.
C4_CanonicalInEveryTier ==
    \A i \in 1..Len(yielded) :
        LET stats == yielded[i].tup.stats
        IN  /\ \A e \in 1..Len(stats) : stats[e].k \notin AliasKeys /\ stats[e].v.t = "num"
            /\ ~PointsRaises(stats)

\* the value an athlete row gives for key k: its stats member, else its totals
RawHasKey(row, k) ==
    \/ row.stats.shape = "dict" /\ HasKey(row.stats.items, k)
    \/ row.stats.shape = "list" /\ \E e \in 1..Len(row.stats.items) : row.stats.items[e].name = k
    \/ row.totals.isDict /\ HasKey(row.totals.items, k)

RawValue(row, k) ==
    IF row.stats.shape = "dict" /\ HasKey(row.stats.items, k)
    THEN Lookup(row.stats.items, k)
    ELSE IF row.stats.shape = "list"
            /\ \E e \in 1..Len(row.stats.items) : row.stats.items[e].name = k
    THEN LET last == CHOOSE e \in 1..Len(row.stats.items) :
                         /\ row.stats.items[e].name = k
                         /\ \A f \in (e + 1)..Len(row.stats.items) :
                                row.stats.items[f].name # k
         IN  row.stats.items[last].v
    ELSE Lookup(row.totals.items, k)

\* C5: a row that has both an explicit fumblesLost and the alias fumbles, in
\* either order, yields fumblesLost equal to the coerced explicit value.
C5_ExplicitFumblesLostWins ==
    \A i \in 1..Len(yielded) :
        LET t == yielded[i].tup
        IN  (yielded[i].tier \in {1, 2}
             /\ RawHasKey(t.raw, "fumblesLost") /\ RawHasKey(t.raw, "fumbles"))
            => /\ HasKey(t.stats, "fumblesLost")
               /\ Lookup(t.stats, "fumblesLost")
                    = Num(coerce_num(RawValue(t.raw, "fumblesLost")))

\* both orders of appearance have been yielded, with values that differ
C5_Witness ==
    \E i, j \in 1..Len(yielded) :
        LET a == yielded[i].tup.raw.stats
            b == yielded[j].tup.raw.stats
        IN  /\ a.shape = "dict" /\ Len(a.items) = 2
            /\ a.items[1].k = "fumblesLost" /\ a.items[2].k = "fumbles"
            /\ coerce_num(a.items[1].v) # coerce_num(a.items[2].v)
            /\ b.shape = "dict" /\ Len(b.items) = 2
            /\ b.items[1].k = "fumbles" /\ b.items[2].k = "fumblesLost"
            /\ coerce_num(b.items[1].v) # coerce_num(b.items[2].v)

----------------------------------------------------------------------------
(* models.py: the tables and their constraints *)

\* A mutant of GameTeamKeys: the table without uq_game_homeaway
GameTeamKeysNoUq(row) == { <<"pk", row.game, row.team>> }

\* models.py:55-56 (primary key) and 62 (uq_game_homeaway)
GameTeamKeys(row) ==
    { <<"pk", row.game, row.team>>, <<"uq_game_homeaway", row.game, row.home_away>> }

\* the unique keys of a row: models.py:14 (abbr), 22 (ext_id), 33 (year),
\* 41 (event_id), 55-62 (game_teams), 71-72 (player_stats)
UniqueKeys(tbl, row) ==
    CASE tbl = "teams"        -> { <<"abbr", row.abbr>> }
      [] tbl = "players"      -> { <<"ext_id", row.ext_id>> }
      [] tbl = "seasons"      -> { <<"year", row.year>> }
      [] tbl = "games"        -> { <<"event_id", row.event_id>> }
      [] tbl = "game_teams"   -> GameTeamKeys(row)
      [] tbl = "player_stats" -> { <<"pk", row.game, row.player>> }

\* main.py:176-179: int(score_val), None when it is None or no integer
ScoreInt(v) ==
    IF v.t \in {"num", "str"} THEN [none |-> FALSE, n |-> v.n] ELSE [none |-> TRUE, n |-> 0]

\* models.py:61: CheckConstraint("home_away IN ('home','away')")
CheckOk(tbl, row) == tbl = "game_teams" => row.home_away \in {"home", "away"}

\* the key an upsert looks a row up by (crud.py:9, 20, 32, 49, 69-71, 89-94)
NaturalKey(tbl, row) ==
    CASE tbl = "teams"        -> <<row.abbr>>
      [] tbl = "players"      -> <<row.ext_id>>
      [] tbl = "seasons"      -> <<row.year>>
      [] tbl = "games"        -> <<row.event_id>>
      [] tbl = "game_teams"   -> <<row.game, row.team>>
      [] tbl = "player_stats" -> <<row.game, row.player>>

Tables == <<"seasons", "teams", "players", "games", "game_teams", "player_stats">>

RowsOf(d, tbl, key) == { r \in d[tbl] : NaturalKey(tbl, r) = key }

\* select(...).scalar_one_or_none() finds a row
Persisted(d, tbl, key) == RowsOf(d, tbl, key) # {}

Conflicts(rows, tbl, row) ==
    \E r \in rows : UniqueKeys(tbl, r) \cap UniqueKeys(tbl, row) # {}

----------------------------------------------------------------------------
(* crud.py: the upserts.  The session is made with autoflush=False          *)
(* (db/__init__.py:15): the select of an upsert reads the rows of the       *)
(* database, not the objects added to the session and not yet flushed.      *)

Call(d, tbl, row, found) ==
    [tbl |-> tbl, key |-> NaturalKey(tbl, row), row |-> row, found |-> found]

\* crud.py:8-16
upsert_team(d, abbr, name) ==
    Call(d, "teams", [abbr |-> abbr, name |-> name],
         Persisted(d, "teams", <<abbr>>))

\* crud.py:19-28
upsert_player(d, ext_id, name, position, team) ==
    Call(d, "players", [ext_id |-> ext_id, name |-> name, position |-> position, team |-> team],
         Persisted(d, "players", <<ext_id>>))

\* crud.py:31-37: a season found is returned as it is
get_or_create_season(d, year) ==
    Call(d, "seasons", [year |-> year], Persisted(d, "seasons", <<year>>))

\* crud.py:40-66
upsert_game(d, event_id, year, overall_week, status) ==
    Call(d, "games",
         [event_id |-> event_id, year |-> year, overall_week |-> overall_week, status |-> status],
         Persisted(d, "games", <<event_id>>))

\* crud.py:68-78: game.game_id and team.team_id are None for objects not yet flushed
upsert_game_team(d, game, team, home_away, score) ==
    Call(d, "game_teams",
         [game |-> game, team |-> team, home_away |-> home_away, score |-> score],
         /\ Persisted(d, "games", <<game>>)
         /\ Persisted(d, "teams", <<team>>)
         /\ Persisted(d, "game_teams", <<game, team>>))

\* crud.py:97-101: int(stats.get(k, 0)), else float(...), else 0
_stat(stats, k) ==
    IF HasKey(stats, k) /\ Lookup(stats, k).t \in {"num", "str"} THEN Lookup(stats, k).n ELSE 0

CanonicalKeySet == { CanonicalKeys[i] : i \in 1..Len(CanonicalKeys) }

\* crud.py:103-115: the nine stat columns
PerfFields(stats) == [k \in CanonicalKeySet |-> _stat(stats, k)]

\* crud.py:81-124, with the fantasy_points main.py:378 sets on the row returned
upsert_player_perf(d, game, player, team, position, stats, fantasy_points) ==
    Call(d, "player_stats",
         [game |-> game, player |-> player, team |-> team, position |-> position,
          fields |-> PerfFields(stats), fantasy_points |-> fantasy_points],
         /\ Persisted(d, "games", <<game>>)
         /\ Persisted(d, "players", <<player>>)
         /\ Persisted(d, "player_stats", <<game, player>>))

----------------------------------------------------------------------------
(* Session.commit(): the flush writes, table by table, the UPDATE of every  *)
(* persistent object changed and then the INSERT of every object added; a   *)
(* statement that breaks a constraint raises and nothing is committed.      *)

\* the calls of a table that update a persistent row / add an object
CallsOf(calls, tbl, found) ==
    SelectSeq(calls, LAMBDA c : c.tbl = tbl /\ c.found = found)

\* the last call for the key of calls[i] is calls[i]
IsLast(calls, i) == \A j \in (i + 1)..Len(calls) : calls[j].key # calls[i].key

\* one UPDATE per changed object, with the attributes of the last call
RECURSIVE ApplyUpdates(_, _, _, _)
ApplyUpdates(rows, tbl, calls, i) ==
    IF i > Len(calls) THEN [ok |-> TRUE, rows |-> rows]
    ELSE IF ~IsLast(calls, i) THEN ApplyUpdates(rows, tbl, calls, i + 1)
    ELSE LET others == { r \in rows : NaturalKey(tbl, r) # calls[i].key }
             \* get_or_create_season changes nothing in a season found
             row == calls[i].row
         IN  IF Conflicts(others, tbl, row) \/ ~CheckOk(tbl, row)
             THEN [ok |-> FALSE, rows |-> rows]
             ELSE ApplyUpdates(others \cup {row}, tbl, calls, i + 1)

\* one INSERT per object added
RECURSIVE ApplyInserts(_, _, _, _)
ApplyInserts(rows, tbl, calls, i) ==
    IF i > Len(calls) THEN [ok |-> TRUE, rows |-> rows]
    ELSE IF Conflicts(rows, tbl, calls[i].row) \/ ~CheckOk(tbl, calls[i].row)
         THEN [ok |-> FALSE, rows |-> rows]
         ELSE ApplyInserts(rows \cup {calls[i].row}, tbl, calls, i + 1)

FlushTable(rows, tbl, calls) ==
    LET u == ApplyUpdates(rows, tbl, CallsOf(calls, tbl, TRUE), 1)
    IN  IF ~u.ok THEN u ELSE ApplyInserts(u.rows, tbl, CallsOf(calls, tbl, FALSE), 1)

\* A mutant of Flush: every statement is committed as it is executed
FlushPartial(d, calls) ==
    LET res == [i \in 1..Len(Tables) |-> FlushTable(d[Tables[i]], Tables[i], calls)]
    IN  [ok |-> \A i \in 1..Len(Tables) : res[i].ok,
         db |-> [t \in DOMAIN d |->
                   IF \E i \in 1..Len(Tables) : Tables[i] = t
                   THEN res[CHOOSE i \in 1..Len(Tables) : Tables[i] = t].rows
                   ELSE d[t]]]

\* db.commit(): [ok, db]; the database is unchanged when the flush raises
Flush(d, calls) ==
    LET res == [i \in 1..Len(Tables) |-> FlushTable(d[Tables[i]], Tables[i], calls)]
    IN  IF \A i \in 1..Len(Tables) : res[i].ok
        THEN [ok |-> TRUE,
              db |-> [t \in DOMAIN d |->
                        IF \E i \in 1..Len(Tables) : Tables[i] = t
                        THEN res[CHOOSE i \in 1..Len(Tables) : Tables[i] = t].rows
                        ELSE d[t]]]
        ELSE [ok |-> FALSE, db |-> d]

----------------------------------------------------------------------------
(* SpecDb: the upserts of crud.py called in any order on one session *)

ResolverIdle ==
    /\ summary_json = NoPayload
    /\ rpc = "idle"
    /\ idx = 1
    /\ yielded_any = FALSE
    /\ gpj = NoPayload
    /\ coreOps = <<>>
    /\ yielded = <<>>
    /\ htmlFetches = 0
    /\ coreFetches = 0

DbAbbrs  == {"KC"}
DbExtIds == {"p1"}
DbEvents == {"E1"}
DbNames  == {"n1", "n2"}
DbWeeks  == {4, 5}
DbStats  == { <<KV("receptions", Num(1))>>, <<KV("receptions", Num(2))>> }

DbInit == DbIdle /\ ResolverIdle /\ ApiIdle /\ IngestIdle /\ CacheIdle /\ NflfastrIdle /\ ScoresIdle

\* the calls of the transaction in progress
CurCalls == IF tx = "open" THEN sess ELSE <<>>

\* an object the caller can hold: a persistent row or an object added in this session
Held(tbl, key) ==
    \/ Persisted(db, tbl, key)
    \/ \E i \in 1..Len(CurCalls) : CurCalls[i].tbl = tbl /\ CurCalls[i].key = key

DoCall(c) ==
    /\ Len(CurCalls) < MaxCalls
    /\ sess' = Append(CurCalls, c)
    /\ tx' = "open"
    /\ UNCHANGED <<db, nonDbVars>>

UpsertTeam ==
    \E abbr \in DbAbbrs, name \in DbNames : DoCall(upsert_team(db, abbr, name))

UpsertPlayer ==
    \E ext_id \in DbExtIds, name \in DbNames :
        DoCall(upsert_player(db, ext_id, name, "QB", ""))

UpsertGame ==
    \E event_id \in DbEvents, w \in DbWeeks :
        DoCall(upsert_game(db, event_id, 2024, w, "post"))

UpsertGameTeam ==
    \E game \in DbEvents, team \in DbAbbrs, home_away \in {"home", "away"} :
        /\ Held("games", <<game>>)
        /\ Held("teams", <<team>>)
        /\ DoCall(upsert_game_team(db, game, team, home_away, ScoreInt(Num(0))))

UpsertPlayerPerf ==
    \E game \in DbEvents, player \in DbExtIds, team \in DbAbbrs, stats \in DbStats :
        /\ Held("games", <<game>>)
        /\ Held("players", <<player>>)
        /\ Held("teams", <<team>>)
        /\ DoCall(upsert_player_perf(db, game, player, team, "QB", stats, 0))

\* db.commit()
Commit ==
    /\ tx = "open"
    /\ LET res == Flush(db, sess)
       IN  /\ db' = res.db
           /\ tx' = IF res.ok THEN "committed" ELSE "failed"
    /\ UNCHANGED <<sess, nonDbVars>>

\* db.rollback()
Rollback ==
    /\ tx = "open"
    /\ tx' = "rolledback"
    /\ sess' = <<>>
    /\ UNCHANGED <<db, nonDbVars>>

DbNext ==
    \/ UpsertTeam
    \/ UpsertPlayer
    \/ UpsertGame
    \/ UpsertGameTeam
    \/ UpsertPlayerPerf
    \/ Commit
    \/ Rollback

SpecDb == DbInit /\ [][DbNext]_vars

\* C8: once a transaction was committed, every natural key it upserted for the
\* second time (the row was found persisted, or the key was upserted earlier in
\* the same session with other values) has exactly one persisted row, and the
\* row holds the values of the last call.
C8_UpsertTwiceOneRow ==
    tx \in {"committed", "failed"} =>
        \A i \in 1..Len(sess) :
            LET c == sess[i]
            IN  (/\ \A j \in (i + 1)..Len(sess) : ~(sess[j].tbl = c.tbl /\ sess[j].key = c.key)
                 /\ \/ c.found
                    \/ \E j \in 1..(i - 1) :
                         sess[j].tbl = c.tbl /\ sess[j].key = c.key /\ sess[j].row # c.row)
                => RowsOf(db, c.tbl, c.key) = {c.row}

----------------------------------------------------------------------------
(* main.py: saving a game (save_game, _save_game_internal) *)

\* an exception: the status of an HTTPException, 500 for any other exception
NoErr == [code |-> 0, detail |-> ""]
Err(code, detail) == [code |-> code, detail |-> detail]

\* one entry of header.competitions[0].competitors
Comp(abbr, homeAway, sc) == [abbr |-> abbr, homeAway |-> homeAway, score |-> sc]

\* what fetch_summary gives for the save: fetchOk FALSE when it raises (a
\* status other than 200; fantasy.py:23 also names aiohttp, which the module
\* does not import, so that a call may raise NameError); kickoff
\* is "missing", "bad" (no ISO datetime) or "ok"; week is the week w of 1..21
\* whose fixed range holds the kickoff date, 0 when no range holds it
Summary(fetchOk, competitors, kickoff, week) ==
    [fetchOk |-> fetchOk, competitors |-> competitors, kickoff |-> kickoff,
     year |-> 2024, week |-> week, state |-> "post"]

\* main.py:66-79
_infer_overall_week_from_kickoff(summary) ==
    IF summary.week \in 1..21 THEN summary.week ELSE 4

\* main.py:185-187
StatusOf(summary) ==
    IF summary.state \in {"pre", "in", "post"} THEN summary.state ELSE "pre"

\* main.py:162-180 (321-339): the loop over the competitors; team_rows is the
\* dict of line 180
RECURSIVE TeamLoop(_, _, _, _)
TeamLoop(d, comps, i, acc) ==
    IF i > Len(comps) \/ acc.err # NoErr THEN acc
    ELSE LET c == comps[i]
             abbr == Upper(c.abbr)
         IN  IF abbr = ""
             THEN [acc EXCEPT !.err = Err(400, "Missing team abbreviation")]
             ELSE TeamLoop(d, comps, i + 1,
                     [err |-> NoErr,
                      calls |-> Append(acc.calls, upsert_team(d, abbr, abbr)),
                      team_rows |-> DictSet(acc.team_rows, c.homeAway,
                                            [team |-> abbr, score |-> ScoreInt(c.score)])])

\* main.py:138-199 (304-355): the exception raised, or the upserts made on the
\* session.  internal: _save_game_internal, where fromisoformat is not guarded
SaveCalls(d, event_id, summary, internal) ==
    IF ~summary.fetchOk THEN [err |-> Err(500, "ESPN summary fetch failed"), calls |-> <<>>]
    ELSE IF Len(summary.competitors) # 2
    THEN [err |-> Err(400, "missing competitors"), calls |-> <<>>]
    ELSE IF summary.kickoff = "missing"
    THEN [err |-> Err(400, "Missing kickoff date"), calls |-> <<>>]
    ELSE IF summary.kickoff = "bad"
    THEN [err |-> IF internal THEN Err(500, "Invalid isoformat string")
                  ELSE Err(400, "Invalid kickoff datetime format"),
          calls |-> <<>>]
    ELSE LET season == get_or_create_season(d, summary.year)
             loop == TeamLoop(d, summary.competitors, 1,
                              [err |-> NoErr, calls |-> <<>>, team_rows |-> <<>>])
             tr == loop.team_rows
         IN  IF loop.err # NoErr THEN [err |-> loop.err, calls |-> <<season>> \o loop.calls]
             ELSE IF ~HasKey(tr, "home") \/ ~HasKey(tr, "away")
             THEN [err |-> Err(400, "Home/Away not found"), calls |-> <<season>> \o loop.calls]
             ELSE [err |-> NoErr,
                   calls |-> <<season>> \o loop.calls \o
                       << upsert_game(d, event_id, summary.year,
                                      _infer_overall_week_from_kickoff(summary),
                                      StatusOf(summary)),
                          upsert_game_team(d, event_id, Lookup(tr, "home").team, "home",
                                           Lookup(tr, "home").score),
                          upsert_game_team(d, event_id, Lookup(tr, "away").team, "away",
                                           Lookup(tr, "away").score) >>]

----------------------------------------------------------------------------
(* main.py: scoring a game (compute_fantasy_fullppr, _score_game_internal) *)

\* scripts/seed_basic.py:13-24: the rule "Full PPR", weights in hundredths
FullPPR ==
    [name |-> "Full PPR", pass_yd |-> 4, pass_td |-> 400, pass_int |-> -200,
     rush_yd |-> 10, rush_td |-> 600, rec_yd |-> 10, rec_td |-> 600,
     reception |-> 100, fumble_lost |-> -200]

\* A mutant of _points: the weights of the receiving yards and of the
\* receptions change places
PointsMiskeyed(stats, R) ==
    R.pass_yd * gi(stats, "passingYards") +
    R.pass_td * gi(stats, "passingTouchdowns") +
    R.pass_int * gi(stats, "interceptions") +
    R.rush_yd * gi(stats, "rushingYards") +
    R.rush_td * gi(stats, "rushingTouchdowns") +
    R.reception * gi(stats, "receivingYards") +
    R.rec_td * gi(stats, "receivingTouchdowns") +
    R.rec_yd * gi(stats, "receptions") +
    R.fumble_lost * gi(stats, "fumblesLost")

\* fantasy.py:94-106, in hundredths of a point
_points(stats, R) ==
    R.pass_yd * gi(stats, "passingYards") +
    R.pass_td * gi(stats, "passingTouchdowns") +
    R.pass_int * gi(stats, "interceptions") +
    R.rush_yd * gi(stats, "rushingYards") +
    R.rush_td * gi(stats, "rushingTouchdowns") +
    R.rec_yd * gi(stats, "receivingYards") +
    R.rec_td * gi(stats, "receivingTouchdowns") +
    R.reception * gi(stats, "receptions") +
    R.fumble_lost * gi(stats, "fumblesLost")

\* the tuples a walk yields, in order
Yields(ops) ==
    LET ys == SelectSeq(ops, LAMBDA o : o.op = "yield")
    IN  [i \in 1..Len(ys) |-> ys[i].tup]

\* fantasy.py:331-362 run to its end: the tuples yielded, and whether an
\* exception left the generator after them.  html and graph are what the
\* boxscore page and the graph API answer if they are asked
IterPlayersRun(summary, html, graph) ==
    LET t1 == _summary_players_iter(summary)
        t2 == IF html.fetch = "root" /\ html.hasGpj
              THEN _summary_players_iter(html.gpj) ELSE <<>>
        ops == _core_players_iter(graph)
    IN  IF Len(t1) > 0 THEN [tuples |-> t1, raised |-> FALSE]
        ELSE IF _extract_event_id_from_summary(summary) = ""
        THEN [tuples |-> <<>>, raised |-> FALSE]
        ELSE IF html.fetch = "httpError" THEN [tuples |-> <<>>, raised |-> TRUE]
        ELSE IF Len(t2) > 0 THEN [tuples |-> t2, raised |-> FALSE]
        ELSE [tuples |-> Yields(ops), raised |-> Raises(ops)]

\* main.py:230 (368)
TeamAbbrsOf(d) == { t.abbr : t \in d.teams }

\* main.py:232-241 (370-379): the body of the loop for the tuples from i on
RECURSIVE PlayerLoop(_, _, _, _, _, _)
PlayerLoop(d, event_id, R, tuples, i, acc) ==
    IF i > Len(tuples) \/ acc.err # NoErr THEN acc
    ELSE LET t == tuples[i]
             calls == << upsert_player(d, t.athlete, t.athlete, t.pos, t.team),
                         upsert_player_perf(d, event_id, t.athlete, t.team, t.pos, t.stats,
                                            IF PointsRaises(t.stats) THEN 0
                                            ELSE _points(t.stats, R)) >>
         IN  IF t.team \notin TeamAbbrsOf(d)
             THEN PlayerLoop(d, event_id, R, tuples, i + 1, acc)
             ELSE PlayerLoop(d, event_id, R, tuples, i + 1,
                     [err |-> IF PointsRaises(t.stats)
                              THEN Err(500, "could not convert string to float")
                              ELSE NoErr,
                      calls |-> acc.calls \o calls,
                      written |-> IF PointsRaises(t.stats) THEN acc.written
                                  ELSE acc.written + 1])

\* what upstream gives to one scoring: the summary (or fetch_summary raises),
\* the boxscore page and the graph
Feed(fetchOk, summary, html, graph) ==
    [fetchOk |-> fetchOk, summary |-> summary, html |-> html, graph |-> graph]

\* A mutant of _get_full_ppr: without the rule, the default weights are used
GetRuleOrDefault(d) ==
    IF \E R \in d.scoring_rules : R.name = "Full PPR"
    THEN [raised |-> FALSE, rule |-> CHOOSE R \in d.scoring_rules : R.name = "Full PPR"]
    ELSE [raised |-> FALSE, rule |-> FullPPR]

\* fantasy.py:88-92
_get_full_ppr(d) ==
    IF \E R \in d.scoring_rules : R.name = "Full PPR"
    THEN [raised |-> FALSE, rule |-> CHOOSE R \in d.scoring_rules : R.name = "Full PPR"]
    ELSE [raised |-> TRUE, rule |-> NoRule]

\* main.py:228-241, 366-379: the summary is fetched, the rule is looked up once,
\* and the players are written
ScoreSaved(d, event_id, feed) ==
    IF ~feed.fetchOk
    THEN [err |-> Err(500, "ESPN summary fetch failed"), calls |-> <<>>, written |-> 0,
          fetched |-> TRUE]
    ELSE IF _get_full_ppr(d).raised
    THEN [err |-> Err(500, "Full PPR rule missing"), calls |-> <<>>, written |-> 0,
          fetched |-> TRUE]
    ELSE LET R == _get_full_ppr(d).rule
             run == IterPlayersRun(feed.summary, feed.html, feed.graph)
             loop == PlayerLoop(d, event_id, R, run.tuples, 1,
                                [err |-> NoErr, calls |-> <<>>, written |-> 0])
         IN  [err |-> IF loop.err # NoErr THEN loop.err
                      ELSE IF run.raised THEN Err(500, "upstream error in _iter_players")
                      ELSE NoErr,
              calls |-> loop.calls, written |-> loop.written, fetched |-> TRUE]

\* A mutant of ScoreCalls: the game is not looked up
ScoreCallsUnchecked(d, event_id, feed) == ScoreSaved(d, event_id, feed)

\* main.py:225-241, 363-379
ScoreCalls(d, event_id, feed) ==
    IF ~Persisted(d, "games", <<event_id>>)
    THEN [err |-> Err(404, "Game not found"), calls |-> <<>>, written |-> 0, fetched |-> FALSE]
    ELSE ScoreSaved(d, event_id, feed)

----------------------------------------------------------------------------
(* The inputs of the endpoints *)

\* the database after scripts/seed_basic.py
SeededDb == [EmptyDb EXCEPT !.scoring_rules = {FullPPR}, !.seasons = {[year |-> 2025]}]

ApiEvents == {"E1", "E2"}
\* the event ids scored: one that can be saved, one that never is
ScoredEvents == {"E1", "E3"}
ApiAbbrs  == {"KC", "SF", "DAL"}

\* a game of two teams; the same game with the roles swapped, with another home
\* team, with another score, with one team in both roles
GoodSummaries ==
    { Summary(TRUE, <<Comp(h, "home", Num(0)), Comp(a, "away", Num(0))>>, "ok", 5) :
        h \in ApiAbbrs, a \in {"KC", "SF"} }
    \cup { Summary(TRUE, <<Comp("SF", "away", Bad), Comp("kc", "home", Str(7))>>, "ok", 0) }

BadSummaries ==
    { Summary(FALSE, <<>>, "ok", 5),
      Summary(TRUE, <<Comp("KC", "home", Num(0))>>, "ok", 5),
      Summary(TRUE, <<Comp("KC", "home", Num(0)), Comp("SF", "away", Num(0))>>, "missing", 5),
      Summary(TRUE, <<Comp("KC", "home", Num(0)), Comp("SF", "away", Num(0))>>, "bad", 5),
      Summary(TRUE, <<Comp("KC", "home", Num(0)), Comp("", "away", Num(0))>>, "ok", 5),
      Summary(TRUE, <<Comp("KC", "home", Num(0)), Comp("SF", "home", Num(0))>>, "ok", 5),
      Summary(TRUE, <<Comp("KC", "", Num(0)), Comp("SF", "away", Num(0))>>, "ok", 5) }

ApiSummaries == GoodSummaries \cup BadSummaries

NoHtml == [fetch |-> "noMatch", hasGpj |-> FALSE, gpj |-> Payload(HeaderNone, <<>>)]
HtmlError == [fetch |-> "httpError", hasGpj |-> FALSE, gpj |-> Payload(HeaderNone, <<>>)]
NoGraph == Graph(TRUE, "none", <<>>)

OneRow(a, st) == Row(a, "QB", NoDict, DictStats(st))
BoxScore(rows) == Payload(HeaderId, <<Team("KC", Groups(<<Group("", rows)>>), NotList)>>)

\* one athlete; two athletes; the same athlete in two rows; a page that fails;
\* nothing to yield; a graph whose statistic is no number; fetch_summary raises
ScoreFeeds ==
    { Feed(TRUE, BoxScore(<<OneRow("p1", <<KV("receptions", Num(2))>>)>>), NoHtml, NoGraph),
      Feed(TRUE, BoxScore(<<OneRow("p1", <<KV("rec", Str(1))>>),
                            OneRow("p2", <<KV("rushingYards", Comma(3))>>)>>), NoHtml, NoGraph),
      Feed(TRUE, BoxScore(<<OneRow("p1", <<KV("receptions", Num(1))>>),
                            OneRow("p1", <<KV("receptions", Num(3))>>)>>), NoHtml, NoGraph),
      Feed(TRUE, Payload(HeaderId, <<>>), HtmlError, NoGraph),
      Feed(TRUE, Payload(HeaderNone, <<>>), NoHtml, NoGraph),
      Feed(TRUE, Payload(HeaderId, <<>>), NoHtml,
           Graph(TRUE, "list",
                 <<Competitor(FALSE, TRUE, "inline", "1", TRUE,
                              <<Item(FALSE, TRUE, "p1", TRUE, <<Metric("passingYards", Num(2))>>),
                                Item(FALSE, TRUE, "p2", TRUE, <<Metric("rushingYards", Bad)>>)>>)>>)),
      Feed(FALSE, Payload(HeaderNone, <<>>), NoHtml, NoGraph) }

\* the feeds of the requests to compute_fantasy_fullppr
ApiFeeds ==
    { f \in ScoreFeeds :
        \/ ~f.fetchOk
        \/ f.html = HtmlError
        \/ f.graph # NoGraph
        \/ Len(_summary_players_iter(f.summary)) > 0 /\
             \A i \in 1..Len(_summary_players_iter(f.summary)) :
                 _summary_players_iter(f.summary)[i].athlete = "p1" }

----------------------------------------------------------------------------
(* SpecApi: requests to save_game and compute_fantasy_fullppr, one at a     *)
(* time, each on a session of its own (get_db, db/__init__.py:22-27)        *)

ApiInit ==
    /\ db \in {EmptyDb, SeededDb}
    /\ SessIdle
    /\ ApiIdle
    /\ ResolverIdle
    /\ IngestIdle
    /\ CacheIdle /\ NflfastrIdle /\ ScoresIdle

\* A mutant of SessionClose: the pending rows are committed on the way out
SessionCloseCommits(d, calls) == Flush(d, calls).db

\* db/__init__.py:22-27: get_db closes the session when the request ends; what
\* is pending and not committed is dropped
SessionClose(d, calls) == d

\* the payload lacks load-bearing data: not two competitors, no kickoff date
\* or one that is no ISO datetime, an empty team abbreviation, or not both
\* the roles home and away
LoadBearingDefect(summary) ==
    /\ summary.fetchOk
    /\ \/ Len(summary.competitors) # 2
       \/ summary.kickoff \in {"missing", "bad"}
       \/ \E i \in 1..Len(summary.competitors) : summary.competitors[i].abbr = ""
       \/ ~({"home", "away"} \subseteq
              { summary.competitors[i].homeAway : i \in 1..Len(summary.competitors) })

\* main.py:130-211
\* main.py:74-78: the loop over the weeks 1..21 ends without a range that holds
\* the kickoff date of the payload
NoWindow(summary) ==
    /\ summary.fetchOk
    /\ summary.kickoff = "ok"
    /\ summary.week \notin 1..21

SaveGame ==
    \E event_id \in ApiEvents, summary \in ApiSummaries :
        LET r == SaveCalls(db, event_id, summary, FALSE)
            f == Flush(db, r.calls)
        IN  /\ db' = IF r.err = NoErr THEN f.db ELSE SessionClose(db, r.calls)
            /\ response' = [op |-> "save", event_id |-> event_id,
                            code |-> IF r.err # NoErr THEN r.err.code
                                     ELSE IF f.ok THEN 200 ELSE 500,
                            detail |-> IF r.err # NoErr THEN r.err.detail
                                       ELSE IF f.ok THEN "" ELSE "IntegrityError",
                            resave |-> Persisted(db, "games", <<event_id>>),
                            parsed |-> 0, fetched |-> TRUE,
                            defect |-> LoadBearingDefect(summary),
                            nowindow |-> NoWindow(summary)]
            /\ UNCHANGED nonApiVars

\* main.py:213-262
ScoreGame ==
    \E event_id \in ScoredEvents, feed \in ApiFeeds :
        LET r == ScoreCalls(db, event_id, feed)
            f == Flush(db, r.calls)
        IN  /\ db' = IF r.err = NoErr THEN f.db ELSE SessionClose(db, r.calls)
            /\ response' = [op |-> "score", event_id |-> event_id,
                            code |-> IF r.err # NoErr THEN r.err.code
                                     ELSE IF f.ok THEN 200 ELSE 500,
                            detail |-> IF r.err # NoErr THEN r.err.detail
                                       ELSE IF f.ok THEN "" ELSE "IntegrityError",
                            resave |-> \E p \in db.player_stats : p.game = event_id,
                            parsed |-> IF r.err = NoErr /\ f.ok THEN r.written ELSE 0,
                            fetched |-> r.fetched, defect |-> FALSE,
                            nowindow |-> FALSE]
            /\ UNCHANGED nonApiVars

ApiNext ==
    \/ SaveGame
    \/ ScoreGame

SpecApi == ApiInit /\ [][ApiNext]_vars

\* the participation rows of a game
GameTeamsOf(d, event_id) == { gt \in d.game_teams : gt.game = event_id }

\* C9: every persisted game has exactly two participation rows, one with role
\* home and one with role away.
C9_TwoParticipations ==
    \A g \in db.games :
        LET gts == GameTeamsOf(db, g.event_id)
        IN  /\ Cardinality(gts) = 2
            /\ \E h \in gts : h.home_away = "home"
            /\ \E a \in gts : a.home_away = "away"

\* a persisted game was saved again with other teams or other roles, and both
\* games are persisted
C9_Witness ==
    /\ response.op = "save" /\ response.resave /\ response.detail = "IntegrityError"
    /\ Cardinality(GameTeamsOf(db, response.event_id)) = 2
    /\ Cardinality(db.games) = 2

----------------------------------------------------------------------------
(* SpecIngest: one run of ingest_week (main.py:382-415)                     *)

\* games the scoreboard of a week lists
MaxEvents == 3

EventIds == <<"E1", "E2", "E3", "E4">>

\* the ids of the games of the normalized scoreboard ("" a game without id)
Scoreboards ==
    { SubSeq(EventIds, 1, n) : n \in 0..MaxEvents }
    \cup { <<"">> \o SubSeq(EventIds, 1, n) : n \in 1..MaxEvents }

\* what fetch_summary gives to _save_game_internal
IngestSummaries ==
    { Summary(TRUE, <<Comp("KC", "home", Num(0)), Comp("SF", "away", Num(0))>>, "ok", 5),
      Summary(TRUE, <<Comp("KC", "home", Num(0)), Comp("KC", "away", Num(0))>>, "ok", 5),
      Summary(TRUE, <<Comp("KC", "home", Num(0)), Comp("SF", "away", Num(0))>>, "missing", 5),
      Summary(TRUE, <<Comp("KC", "home", Num(0)), Comp("SF", "away", Num(0))>>, "bad", 5),
      Summary(FALSE, <<>>, "ok", 5) }

\* what upstream gives to _score_game_internal
IngestFeeds == { f \in ScoreFeeds : ~f.fetchOk \/ f.summary.header # HeaderNone }

\* the database when the run starts: empty, seeded, or holding a game saved and
\* scored before
IngestedDb ==
    LET summary == CHOOSE x \in IngestSummaries :
                       SaveCalls(SeededDb, "E1", x, TRUE).err = NoErr
                       /\ Flush(SeededDb, SaveCalls(SeededDb, "E1", x, TRUE).calls).ok
        d1 == Flush(SeededDb, SaveCalls(SeededDb, "E1", summary, TRUE).calls).db
        feed == CHOOSE x \in IngestFeeds :
                    ScoreCalls(d1, "E1", x).err = NoErr
                    /\ ScoreCalls(d1, "E1", x).written = 1
                    /\ Flush(d1, ScoreCalls(d1, "E1", x).calls).ok
    IN  Flush(d1, ScoreCalls(d1, "E1", feed).calls).db

\* ---------------------------------------------------------------------------
\* Week windows (scores.py: _custom_week_range)
\*
\* A date is the number of days since Monday 2024-01-01, so that the weekday
\* of Python (Monday 0 ... Sunday 6) is the date modulo 7.
\* ---------------------------------------------------------------------------

\* datetime.date.weekday()
Weekday(d) == d % 7

Wednesday == 2

Tuesday == 1

\* A mutant of _next_weekday: the last such weekday on or before d
LastWeekday(d, target_weekday) ==
    d - ((Weekday(d) - target_weekday) % 7)

\* scores.py:30-36
_next_weekday(d, target_weekday) ==
    LET delta == (target_weekday - Weekday(d)) % 7
    IN  d + delta

\* scores.py:100-119: the range <<start, end>>, both days included
_custom_week_range(week1_start, overall_week) ==
    IF overall_week <= 1
    THEN <<week1_start, week1_start + 13>>
    ELSE LET week1_end_plus_one == week1_start + 14
             week2_start_anchor == _next_weekday(week1_end_plus_one, Wednesday)
             start == week2_start_anchor + (overall_week - 2) * 7
         IN  <<start, start + 6>>

\* 2024-07-31, the fallback of _get_week1_start (scores.py:98)
July31 == 212

\* bound of the model: the starts of week 1 are July31 - StartSpread .. July31 + StartSpread
StartSpread == 4

\* what _get_week1_start returns: the earliest start date of the season
\* calendar, or the fallback
Week1Starts == (July31 - StartSpread)..(July31 + StartSpread)

\* bound of the model: the overall weeks asked for are 0..MaxWeek
MaxWeek == 5

OverallWeeks == 0..MaxWeek

\* 2024-08-01, the earliest start date of the calendar of 2024 (scores.py:93-95)
CalendarStart == July31 + 1

\* main.py:318: kickoff_dt.astimezone(CT).year, 2024 having 366 days
YearOf(d) == IF d < 366 THEN 2024 ELSE 2025

\* the fixed September anchor of a year: Wednesday 2024-09-04, 2025-09-03
FixedAnchor(year) == IF year = 2024 THEN 247 ELSE 611

\* the fixed range of a week: weeks 1 to 3 are the three weeks that end one week
\* before the anchor, week 4 starts at the anchor and the later weeks follow
_fixed_overall_week_range(year, w) ==
    LET start == IF w <= 3 THEN FixedAnchor(year) - 7 * (5 - w)
                 ELSE FixedAnchor(year) + 7 * (w - 4)
    IN  <<start, start + 6>>

\* main.py:73-78: the first week of 1..21 whose fixed range, in the year of the
\* kickoff, holds the kickoff date; 0 when the loop ends without one
WeekHolding(k_date) ==
    LET holds(w) == /\ _fixed_overall_week_range(YearOf(k_date), w)[1] <= k_date
                    /\ k_date <= _fixed_overall_week_range(YearOf(k_date), w)[2]
    IN  IF \E w \in 1..21 : holds(w)
        THEN CHOOSE w \in 1..21 : holds(w) /\ \A v \in 1..(w - 1) : ~holds(v)
        ELSE 0

\* the summary of a game that kicks off on k_date
AtKickoff(summary, k_date) ==
    [summary EXCEPT !.year = YearOf(k_date), !.week = WeekHolding(k_date)]

\* ingest_week(year, week): week 5 and week 21, the last of the regular season
Requests == { [year |-> 2024, week |-> w] : w \in {5, 21} }

IngestInit ==
    /\ db \in {EmptyDb, SeededDb, IngestedDb}
    /\ SessIdle
    /\ ApiIdle
    /\ ResolverIdle
    /\ IngestIdle
    /\ CacheIdle /\ NflfastrIdle /\ ScoresIdle

\* main.py:389-391; an exception of fetch_scores_fresh leaves the handler
IngestStart ==
    /\ ipc = "idle"
    /\ \/ /\ ipc' = "failed"
          /\ UNCHANGED <<request, events, do_score>>
       \/ \E board \in Scoreboards, sc \in BOOLEAN, r \in Requests :
            /\ request' = [year |-> r.year, week |-> r.week,
                           dates |-> _custom_week_range(CalendarStart, r.week)]
            /\ events' = SelectSeq(board, LAMBDA id : id # "")
            /\ do_score' = sc
            /\ ipc' = "running"
    /\ UNCHANGED <<db, eidx, saved, scored, errors, glog, nonIngestVars>>

\* A mutant of ExceptContinue: the exception leaves the handler
ExceptPropagates == "failed"

\* main.py:401-403: the exception is caught inside the loop, which goes on
ExceptContinue == "running"

\* A mutant of EndGame: the game is put in saved before its commit
EndGameSavedEarly(event_id, mid, after, save, sc, err, rows) ==
    /\ db' = after
    /\ saved' = IF save \in {"ok", "commit"} THEN Append(saved, event_id) ELSE saved
    /\ scored' = IF sc = "ok" THEN Append(scored, [event_id |-> event_id, rows |-> rows])
                 ELSE scored
    /\ errors' = IF err # NoErr
                 THEN Append(errors, [event_id |-> event_id, error |-> err.detail])
                 ELSE errors
    /\ glog' = Append(glog, [event_id |-> event_id, save |-> save, score |-> sc,
                             before |-> db, mid |-> mid, after |-> after])
    /\ eidx' = eidx + 1
    /\ ipc' = IF err # NoErr THEN ExceptContinue ELSE "running"

\* one turn of the loop, main.py:392-403, has ended: save and sc say how the two
\* stages ended ("ok", "raised", "commit" when the commit raised, "skipped")
EndGame(event_id, mid, after, save, sc, err, rows) ==
    /\ db' = after
    /\ saved' = IF save = "ok" THEN Append(saved, event_id) ELSE saved
    /\ scored' = IF sc = "ok" THEN Append(scored, [event_id |-> event_id, rows |-> rows])
                 ELSE scored
    /\ errors' = IF err # NoErr
                 THEN Append(errors, [event_id |-> event_id, error |-> err.detail])
                 ELSE errors
    /\ glog' = Append(glog, [event_id |-> event_id, save |-> save, score |-> sc,
                             before |-> db, mid |-> mid, after |-> after])
    /\ eidx' = eidx + 1
    /\ ipc' = IF err # NoErr THEN ExceptContinue ELSE "running"

IntegrityError == Err(500, "IntegrityError")

\* main.py:392-403: one game, saved and committed, then scored and committed;
\* after a commit that raised, the rows are those Flush left
IngestGame ==
    /\ ipc = "running"
    /\ eidx <= Len(events)
    /\ \E summary \in { AtKickoff(upstream, k_date) :
                            upstream \in IngestSummaries,
                            k_date \in {request.dates[1], request.dates[2]} } :
         LET event_id == events[eidx]
             s  == SaveCalls(db, event_id, summary, TRUE)
             f1 == Flush(db, s.calls)
         IN  \/ /\ s.err # NoErr
                /\ EndGame(event_id, db, db, "raised", "skipped", s.err, 0)
             \/ /\ s.err = NoErr /\ ~f1.ok
                /\ EndGame(event_id, f1.db, f1.db, "commit", "skipped", IntegrityError, 0)
             \/ /\ s.err = NoErr /\ f1.ok /\ ~do_score
                /\ EndGame(event_id, f1.db, f1.db, "ok", "skipped", NoErr, 0)
             \/ /\ s.err = NoErr /\ f1.ok /\ do_score
                /\ \E feed \in IngestFeeds :
                     LET c  == ScoreCalls(f1.db, event_id, feed)
                         f2 == Flush(f1.db, c.calls)
                     IN  \/ /\ c.err # NoErr
                            /\ EndGame(event_id, f1.db, f1.db, "ok", "raised", c.err, 0)
                         \/ /\ c.err = NoErr /\ ~f2.ok
                            /\ EndGame(event_id, f1.db, f2.db, "ok", "commit",
                                       IntegrityError, 0)
                         \/ /\ c.err = NoErr /\ f2.ok
                            /\ EndGame(event_id, f1.db, f2.db, "ok", "ok", NoErr, c.written)
    /\ UNCHANGED <<request, events, do_score, nonIngestVars>>

\* main.py:404-415: the report is returned
IngestReturn ==
    /\ ipc = "running"
    /\ eidx > Len(events)
    /\ ipc' = "done"
    /\ UNCHANGED <<db, request, events, eidx, do_score, saved, scored, errors, glog,
                   nonIngestVars>>

IngestNext ==
    \/ IngestStart
    \/ IngestGame
    \/ IngestReturn

SpecIngest == IngestInit /\ [][IngestNext]_vars

InSeq(x, seq) == \E i \in 1..Len(seq) : seq[i] = x

\* every row of d1 that belongs to a game other than event_id is a row of d2,
\* and every natural key of d1 is still a key of d2
StaysPersisted(d1, d2, event_id) ==
    /\ \A r \in d1.games : r.event_id # event_id => r \in d2.games
    /\ \A r \in d1.game_teams : r.game # event_id => r \in d2.game_teams
    /\ \A r \in d1.player_stats : r.game # event_id => r \in d2.player_stats
    /\ \A i \in 1..Len(Tables) :
         \A r \in d1[Tables[i]] : Persisted(d2, Tables[i], NaturalKey(Tables[i], r))

\* C6: the games are processed in order and each of them is processed once the
\* handler has ended; a game whose save failed is in errors, is not in saved
\* and changed nothing; the turn of a game changes no row of another game and
\* deletes none, and the rows a game has when its turn ends are persisted from
\* then on.
C6_FailureIsolated ==
    /\ Len(glog) = eidx - 1
    /\ ipc \in {"done", "failed"} => Len(glog) = Len(events)
    /\ \A i \in 1..Len(glog) :
         LET g == glog[i]
         IN  /\ g.event_id = events[i]
             /\ g.save # "ok" =>
                  /\ \E j \in 1..Len(errors) : errors[j].event_id = g.event_id
                  /\ ~InSeq(g.event_id, saved)
                  /\ g.after = g.before
             /\ StaysPersisted(g.before, g.after, g.event_id)
             /\ StaysPersisted(g.after, db, "")

\* of three games the second failed to save; the first and the third are
\* saved and scored, and their rows are persisted
C6_Witness ==
    /\ ipc = "done"
    /\ Len(glog) = 3
    /\ glog[1].save = "ok" /\ glog[1].score = "ok"
    /\ glog[2].save # "ok"
    /\ glog[3].save = "ok" /\ glog[3].score = "ok"
    /\ \A e \in {events[1], events[3]} :
         /\ Persisted(db, "games", <<e>>)
         /\ \E p \in db.player_stats : p.game = e

\* C7 as the specification states it: with scoring enabled a game is persisted
\* whole or not at all; once ingest_week has returned, every game left the
\* database as it was or was saved and scored.
C7_OneTransactionPerGame ==
    (ipc = "done" /\ do_score) =>
        \A i \in 1..Len(glog) :
            \/ glog[i].after = glog[i].before
            \/ glog[i].save = "ok" /\ glog[i].score = "ok"

\* C7, amended: a game is persisted in two transactions, its metadata first and
\* its players and statistic rows second; each of the two is all or nothing,
\* and the second is committed only after the first.
C7_TwoTransactionsPerGame ==
    \A i \in 1..Len(glog) :
        LET g == glog[i]
        IN  /\ g.save # "ok" => g.mid = g.before /\ g.after = g.before
            /\ g.score # "ok" => g.after = g.mid
            /\ g.score = "ok" => g.save = "ok"
            /\ g.save = "ok" =>
                 /\ Persisted(g.mid, "games", <<g.event_id>>)
                 /\ Cardinality(GameTeamsOf(g.mid, g.event_id)) = 2
                 /\ g.mid.player_stats = g.before.player_stats
                 /\ g.mid.players = g.before.players

\* a game was saved and its scoring failed after a player was upserted: the
\* metadata is persisted, no player and no statistic row of the game is
C7_Witness ==
    /\ ipc = "done" /\ do_score
    /\ \E i \in 1..Len(glog) :
         /\ glog[i].save = "ok" /\ glog[i].score \in {"raised", "commit"}
         /\ glog[i].before.games = {}
         /\ Persisted(db, "games", <<glog[i].event_id>>)
         /\ \E j \in 1..Len(errors) :
              /\ errors[j].event_id = glog[i].event_id
              /\ errors[j].error \in {"could not convert string to float", "IntegrityError"}
         /\ db.players = {}
         /\ db.player_stats = {}

----------------------------------------------------------------------------
(* SpecCache: get_scores_cached (scores.py:215-247) called by coroutines of *)
(* one event loop.  A coroutine runs alone from one await to the next: the  *)
(* awaits are _lock.acquire(), fetch_scores_fresh() and asyncio.sleep().    *)
(* Time is counted in half seconds; the cache keeps, instead of the instant *)
(* an entry expires, the time left until then.                              *)

\* scores.py:11
CACHE_TTL_SECONDS == 10

HalfSeconds(seconds) == 2 * seconds

\* scores.py:232: range(4)
Attempts == 4

\* A mutant of Delay: the delay is not doubled
DelayNotDoubled(attempt) == 1

\* scores.py:230, 240: 0.5 s, doubled after every attempt; in half seconds
Delay(attempt) == 2 ^ (attempt - 1)

\* scores.py:182 and 244
FreshSource == "ESPN public scoreboard"
Stale(source) == IF source = FreshSource THEN "ESPN public scoreboard (stale)"
                 ELSE "ESPN public scoreboard (stale) (stale)"

\* A mutant of Unexpired: the expiry of the entry is not looked at
UnexpiredOrNot(key) == cache[key].present

\* scores.py:222, 227: entry and entry["expires"] > _now()
Unexpired(key) == cache[key].present /\ cache[key].left > 0

\* A mutant of HasEntry: only an unexpired entry counts
HasFreshEntry(key) == cache[key].present /\ cache[key].left > 0

\* scores.py:242: key in _cache
HasEntry(key) == cache[key].present

\* A mutant of Recheck: the entry is not looked up again under the lock
NoRecheck(key) == FALSE

\* scores.py:226-228: the entry is looked up again once the lock is held
Recheck(key) == Unexpired(key)

CacheInit ==
    /\ CacheIdle /\ NflfastrIdle /\ ScoresIdle
    /\ ResolverIdle
    /\ DbIdle
    /\ ApiIdle
    /\ IngestIdle

\* the caller returns entry["data"] (222-223, 227-228)
ReturnCached(c, r) ==
    [r EXCEPT !.pc = "done", !.result = "data", !.source = cache[r.key].source]

\* scores.py:225-234 once the lock is held: answer from the entry, or start
\* the first attempt
Locked(c, r) ==
    IF Recheck(r.key)
    THEN /\ callers' = [callers EXCEPT ![c] = ReturnCached(c, [r EXCEPT !.fresh = Unexpired(r.key)])]
         /\ lock' = 0
    ELSE /\ callers' = [callers EXCEPT ![c] =
                          [r EXCEPT !.pc = "fetch", !.attempt = 1, !.fresh = Unexpired(r.key)]]
         /\ lock' = c

\* scores.py:220-225: the call, up to its first await
GetScoresCached ==
    \E c \in Callers, key \in Keys :
        /\ callers[c].pc = "idle"
        /\ LET r == [IdleCaller EXCEPT !.key = key]
           IN  IF Unexpired(key)
               THEN /\ callers' = [callers EXCEPT ![c] = ReturnCached(c, r)]
                    /\ UNCHANGED <<lock, waiters>>
               ELSE IF lock = 0 /\ waiters = <<>>
               THEN /\ Locked(c, r)
                    /\ UNCHANGED waiters
               ELSE /\ callers' = [callers EXCEPT ![c] = [r EXCEPT !.pc = "wait", !.waited = TRUE]]
                    /\ waiters' = Append(waiters, c)
                    /\ UNCHANGED lock
        /\ UNCHANGED <<cache, nonCacheVars>>

\* _lock.acquire() returns in the first waiter
Acquire ==
    /\ lock = 0
    /\ waiters # <<>>
    /\ LET c == Head(waiters)
       IN  Locked(c, callers[c])
    /\ waiters' = Tail(waiters)
    /\ UNCHANGED <<cache, nonCacheVars>>

\* scores.py:234-236: the attempt succeeds; the result is stored and returned
FetchOk ==
    \E c \in Callers :
        /\ callers[c].pc = "fetch"
        /\ cache' = [cache EXCEPT ![callers[c].key] =
                        [present |-> TRUE, source |-> FreshSource,
                         left |-> HalfSeconds(CACHE_TTL_SECONDS), age |-> 0]]
        /\ callers' = [callers EXCEPT ![c].pc = "done", ![c].result = "data",
                                      ![c].source = FreshSource]
        /\ lock' = 0
        /\ UNCHANGED <<waiters, nonCacheVars>>

\* scores.py:237-240: the attempt fails; the caller sleeps
FetchFail ==
    \E c \in Callers :
        /\ callers[c].pc = "fetch"
        /\ callers' = [callers EXCEPT ![c].pc = "sleep",
                                      ![c].sleep = Delay(callers[c].attempt)]
        /\ UNCHANGED <<cache, lock, waiters, nonCacheVars>>

\* A mutant of CopyEntry: the label of the entry itself is annotated
AnnotateEntry(key) == [cache EXCEPT ![key].source = Stale(cache[key].source)]

\* scores.py:243-244: stale is a copy of the entry's data (dict()), and the +=
\* binds a new string in the copy; the cache after it
CopyEntry(key) == cache

\* scores.py:232-247: the sleep is over; the next attempt, or the stale entry,
\* or the last error
Wake ==
    \E c \in Callers :
        LET r == callers[c]
        IN  /\ r.pc = "sleep"
            /\ r.sleep = 0
            /\ IF r.attempt < Attempts
               THEN /\ callers' = [callers EXCEPT ![c].pc = "fetch",
                                                  ![c].attempt = r.attempt + 1]
                    /\ UNCHANGED lock
               ELSE /\ callers' = [callers EXCEPT
                          ![c].pc = "done",
                          ![c].result = IF HasEntry(r.key) THEN "data" ELSE "raise",
                          ![c].source = IF HasEntry(r.key)
                                        THEN Stale(cache[r.key].source) ELSE ""]
                    /\ lock' = 0
            /\ cache' = IF r.attempt >= Attempts /\ HasEntry(r.key)
                        THEN CopyEntry(r.key) ELSE cache
            /\ UNCHANGED <<waiters, nonCacheVars>>

\* the caller has its answer; it may call again
Return ==
    \E c \in Callers :
        /\ callers[c].pc = "done"
        /\ callers' = [callers EXCEPT ![c] = IdleCaller]
        /\ UNCHANGED <<cache, lock, waiters, nonCacheVars>>

\* half a second passes; age is the time since the entry was stored, counted
\* up to one half second past the time to live
Tick ==
    /\ cache' = [k \in Keys |->
                   IF ~cache[k].present THEN cache[k]
                   ELSE [cache[k] EXCEPT
                           !.left = IF cache[k].left > 0 THEN cache[k].left - 1 ELSE 0,
                           !.age = IF cache[k].age <= HalfSeconds(CACHE_TTL_SECONDS)
                                   THEN cache[k].age + 1 ELSE cache[k].age]]
    /\ callers' = [c \in Callers |->
                     IF callers[c].sleep > 0
                     THEN [callers[c] EXCEPT !.sleep = callers[c].sleep - 1]
                     ELSE callers[c]]
    /\ UNCHANGED <<lock, waiters, nonCacheVars>>

CacheNext ==
    \/ GetScoresCached
    \/ Acquire
    \/ FetchOk
    \/ FetchFail
    \/ Wake
    \/ Return
    \/ Tick

SpecCache == CacheInit /\ [][CacheNext]_vars

\* the callers with a refresh in flight
Refreshing == { c \in Callers : callers[c].pc \in {"fetch", "sleep"} }

\* C10 as the specification states it: at most one refresh is in flight, and a
\* caller that waited for the lock issues no upstream call of its own.
C10_WaitersNeverFetch ==
    /\ Cardinality(Refreshing) <= 1
    /\ \A c \in Callers : callers[c].waited => callers[c].attempt = 0

\* C10, amended: at most one refresh is in flight, and it is the refresh of the
\* caller that holds the lock; a caller that waited for the lock and finds an
\* unexpired entry for its key when it gets the lock issues no upstream call of
\* its own and returns that entry.
C10_SingleFlight ==
    /\ Cardinality(Refreshing) <= 1
    /\ \A c \in Refreshing : lock = c
    /\ \A c \in Callers :
         (callers[c].waited /\ callers[c].fresh) =>
             /\ callers[c].attempt = 0
             /\ callers[c].pc = "done"
             /\ callers[c].result = "data"
             /\ callers[c].source = FreshSource

\* two callers of one key: one refreshed, the other waited for the lock and
\* returned the entry without an upstream call
C10_Witness ==
    \E c, d \in Callers :
        /\ c # d
        /\ callers[c].key = callers[d].key
        /\ callers[c].pc = "done" /\ ~callers[c].waited /\ callers[c].attempt > 0
        /\ callers[d].pc = "done" /\ callers[d].waited /\ callers[d].fresh
        /\ callers[d].attempt = 0

StaleSource == "ESPN public scoreboard (stale)"

\* C11: when the caller leaves the sleep that follows its last failed attempt,
\* it returns the entry of its key with the source annotated as stale if the
\* cache holds an entry, which is then an expired one, and raises if it holds
\* none.
C11_StaleOrRaise ==
    [][ \A c \in Callers :
          (callers[c].pc = "sleep" /\ callers[c].attempt = Attempts
             /\ callers'[c].pc # "sleep") =>
              /\ callers'[c].pc = "done"
              /\ IF cache[callers[c].key].present
                 THEN /\ cache[callers[c].key].left = 0
                      /\ callers'[c].result = "data"
                      /\ callers'[c].source = StaleSource
                 ELSE callers'[c].result = "raise"
              /\ cache' = cache ]_vars

\* a refresh failed in all its attempts and the expired entry was returned
C11_Witness ==
    \E c \in Callers :
        /\ callers[c].pc = "done" /\ callers[c].attempt = Attempts
        /\ callers[c].result = "data" /\ callers[c].source = StaleSource

\* the waits between successive attempts, in half seconds: 0.5 s, 1 s, 2 s
BackoffWaits == <<1, 2, 4>>

\* C12: a refresh starts at most 4 attempts, one after the other; a successful
\* attempt ends it; the attempt that follows a failed one starts only when the
\* wait set after the failure (0.5 s, 1 s, 2 s) has elapsed; no attempt follows
\* the 4th.
C12_Backoff ==
    [][ \A c \in Callers :
          /\ callers'[c].attempt <= 4
          /\ (callers'[c].attempt # callers[c].attempt /\ callers'[c].pc = "fetch") =>
                /\ callers'[c].attempt = callers[c].attempt + 1
                /\ callers[c].attempt >= 1 =>
                     callers[c].pc = "sleep" /\ callers[c].sleep = 0
          /\ (callers[c].pc = "fetch" /\ callers'[c].pc = "sleep"
                /\ callers[c].attempt < 4) =>
                callers'[c].sleep = BackoffWaits[callers[c].attempt]
          /\ (callers[c].pc = "sleep" /\ callers[c].sleep > 0) =>
                /\ callers'[c].pc = "sleep"
                /\ callers'[c].sleep >= callers[c].sleep - 1
          /\ (callers[c].pc = "fetch" /\ callers'[c].pc = "done") =>
                /\ callers'[c].result = "data"
                /\ callers'[c].source = FreshSource
          /\ (callers[c].pc = "sleep" /\ callers[c].attempt = 4) =>
                callers'[c].pc \in {"sleep", "done"} ]_vars

\* a refresh gave up after its 4th attempt, and another one stopped at its 3rd
C12_Witness ==
    \E c, d \in Callers :
        /\ callers[c].pc = "done" /\ callers[c].attempt = 4 /\ callers[c].result = "raise"
        /\ callers[d].pc = "done" /\ callers[d].attempt = 3
        /\ callers[d].source = FreshSource

\* C13: the cache holds one entry per key; a call is answered from the entry
\* without an upstream call exactly when the entry exists and is not expired
\* at the time it is looked up; a refresh stores its result with 10 seconds
\* (20 half seconds) to live; data returned without the stale annotation was
\* stored at most 10 seconds before.
C13_TtlCache ==
    [][ /\ DOMAIN cache' = Keys
        /\ \A k \in Keys :
             (cache'[k].age = 0 /\ cache'[k].present /\ (~cache[k].present \/ cache[k].age > 0)) =>
                 cache'[k].left = 20
        /\ \A c \in Callers :
             LET k == callers'[c].key
             IN  /\ (callers[c].pc \in {"idle", "wait"} /\ callers'[c].pc # callers[c].pc) =>
                      \* the entry was looked up in this step
                      ( (callers'[c].pc = "done" /\ callers'[c].attempt = 0
                           /\ callers'[c].result = "data" /\ callers'[c].source = FreshSource)
                        <=> (callers'[c].pc # "wait" /\ cache[k].present /\ cache[k].left > 0) )
                 /\ (callers[c].pc \in {"idle", "wait"} /\ callers'[c].pc = "fetch") =>
                      ~(cache[k].present /\ cache[k].left > 0)
                 /\ (callers[c].pc # "done" /\ callers'[c].pc = "done"
                       /\ callers'[c].result = "data" /\ callers'[c].source = FreshSource) =>
                      /\ cache'[k].present
                      /\ cache'[k].age <= 20 ]_vars

\* a call was answered from an entry stored 9.5 seconds before
C13_Witness ==
    \E c \in Callers :
        /\ callers[c].pc = "done" /\ callers[c].attempt = 0
        /\ callers[c].source = FreshSource
        /\ cache[callers[c].key].age = 19

\* ------------------------------------------------------------------------
\* The season dataset cache: nflfastr.py, _load_player_stats_csv.  The
\* function is synchronous and takes no lock; its callers are threads.
\* ------------------------------------------------------------------------

CsvInit == CsvIdle /\ AdapterIdle /\ PointsIdle /\ ResolverIdle /\ DbIdle /\ ApiIdle /\ IngestIdle /\ CacheIdle /\ ScoresIdle

\* nflfastr.py:290: cached and (now - float(cached["fetched"])) < CSV_TTL_SECONDS
CsvFresh(season) ==
    csv_cache[season].present /\ csv_cache[season].age < TenMinutes(CSV_TTL_SECONDS)

\* nflfastr.py:288-297: the clock is read, the entry is looked up, and the
\* request is sent if the entry is missing or too old
LoadPlayerStatsCsv ==
    \E t \in Threads, season \in Seasons :
        /\ threads[t].pc = "idle"
        /\ IF CsvFresh(season)
           THEN /\ threads' = [threads EXCEPT ![t] =
                                 [pc |-> "done", season |-> season, elapsed |-> 0,
                                  result |-> "cached"]]
                /\ since' = since
           ELSE /\ threads' = [threads EXCEPT ![t] =
                                 [pc |-> "get", season |-> season, elapsed |-> 0,
                                  result |-> ""]]
                /\ since' = [since EXCEPT ![season] = 0]
        /\ UNCHANGED <<csv_cache, nonCsvVars>>

\* nflfastr.py:297-308: the response arrives and is stored with fetched = now,
\* the time read when the call began
HttpOk ==
    \E t \in Threads :
        /\ threads[t].pc = "get"
        /\ csv_cache' = [csv_cache EXCEPT ![threads[t].season] =
                           [present |-> TRUE, age |-> threads[t].elapsed]]
        /\ threads' = [threads EXCEPT ![t].pc = "done", ![t].result = "downloaded"]
        /\ UNCHANGED <<since, nonCsvVars>>

\* nflfastr.py:297-298: the request fails or raise_for_status() raises
HttpFail ==
    \E t \in Threads :
        /\ threads[t].pc = "get"
        /\ threads' = [threads EXCEPT ![t].pc = "done", ![t].result = "raise"]
        /\ UNCHANGED <<csv_cache, since, nonCsvVars>>

CsvReturn ==
    \E t \in Threads :
        /\ threads[t].pc = "done"
        /\ threads' = [threads EXCEPT ![t] = IdleThread]
        /\ UNCHANGED <<csv_cache, since, nonCsvVars>>

\* ten minutes pass; times are counted up to the time to live
CsvTick ==
    LET ttl == TenMinutes(CSV_TTL_SECONDS)
        Later(n) == IF n < ttl THEN n + 1 ELSE n
    IN  /\ csv_cache' = [s \in Seasons |->
                           IF csv_cache[s].present
                           THEN [csv_cache[s] EXCEPT !.age = Later(csv_cache[s].age)]
                           ELSE csv_cache[s]]
        /\ threads' = [t \in Threads |->
                         IF threads[t].pc = "get"
                         THEN [threads[t] EXCEPT !.elapsed = Later(threads[t].elapsed)]
                         ELSE threads[t]]
        /\ since' = [s \in Seasons |-> Later(since[s])]
        /\ UNCHANGED nonCsvVars

CsvNext == LoadPlayerStatsCsv \/ HttpOk \/ HttpFail \/ CsvReturn \/ CsvTick

SpecCsv == CsvInit /\ [][CsvNext]_vars

\* C14: a download of a season's dataset begins only when no other thread is
\* downloading the same season and no download of it began less than 20
\* minutes (2 steps of ten minutes) before.
C14_OneDownloadPerTtl ==
    [][ \A t \in Threads :
          (threads[t].pc = "idle" /\ threads'[t].pc = "get") =>
              LET season == threads'[t].season
              IN  /\ \A u \in Threads \ {t} :
                        ~(threads[u].pc = "get" /\ threads[u].season = season)
                  /\ since[season] >= 2 ]_vars

\* ------------------------------------------------------------------------
\* The historical adapter: nflfastr.py, iter_players_for_game.  A dataset is
\* [cols, recs]: the header of the CSV and its rows; a row is a record over
\* every column of the model, of which only those of the header are in the
\* dict that csv.DictReader makes.  A cell is a value as in the conventions
\* above: Str(n) a numeric string, Bad, Comma(n), Null (a short row).
\* ------------------------------------------------------------------------

\* nflfastr.py:47-55
TEAM_ALIAS_TO_NFLVERSE ==
    [WSH |-> "WAS", JAC |-> "JAX", SD |-> "LAC", STL |-> "LAR", OAK |-> "LV",
     LA |-> "LAR"]

\* nflfastr.py:57-63
TEAM_ALIAS_TO_ESPN ==
    [WAS |-> "WSH", JAX |-> "JAX", LAC |-> "LAC", LAR |-> "LAR", LV |-> "LV"]

\* nflfastr.py:68-69
TEAM_COLS == <<"team", "recent_team", "team_abbr">>

OPP_COLS == <<"opponent_team", "opponent", "opp">>

\* nflfastr.py:88-93
FUMBLE_LOST_CANDIDATES ==
    <<"rushing_fumbles_lost", "receiving_fumbles_lost", "sack_fumbles_lost",
      "fumbles_lost">>

\* nflfastr.py:232-246
_convert_overall_to_nflverse(overall_week) ==
    IF overall_week <= 0 THEN <<"REG", 1>>
    ELSE IF overall_week <= 3 THEN <<"PRE", overall_week>>
    ELSE <<"REG", overall_week - 3>>

\* nflfastr.py:249-253
_to_nflverse_abbr(abbr) ==
    IF abbr = "" THEN abbr
    ELSE LET a == Upper(abbr)
         IN  IF a \in DOMAIN TEAM_ALIAS_TO_NFLVERSE THEN TEAM_ALIAS_TO_NFLVERSE[a] ELSE a

\* nflfastr.py:256-263; None is ""
_first_present_key(ds, candidates) ==
    LET hits == { i \in 1..Len(candidates) : candidates[i] \in ds.cols }
    IN  IF ds.recs = <<>> \/ hits = {} THEN ""
        ELSE candidates[CHOOSE i \in hits : \A j \in hits : i <= j]

\* nflfastr.py:266-273: "" and None are 0, int(float(v)), 0 when that raises
_to_int(v) ==
    CASE v.t = "str" -> v.n
      [] v.t = "num" -> v.n
      [] OTHER -> 0

RECURSIVE SumInts(_, _, _, _)
SumInts(ds, r, keys, i) ==
    IF i > Len(keys) THEN 0
    ELSE (IF keys[i] \in ds.cols THEN _to_int(r[keys[i]]) ELSE 0)
         + SumInts(ds, r, keys, i + 1)

\* nflfastr.py:276-281
_sum_ints(ds, r, keys) == SumInts(ds, r, keys, 1)

\* (r.get(key) or "").upper()
GetUpper(ds, r, key) == IF key # "" /\ key \in ds.cols THEN Upper(r[key]) ELSE ""

\* nflfastr.py:156, 185: int(r.get("season", 0)) raises on a cell that is no
\* integer, and the row is skipped (178-179, 192-193)
SeasonRaises(ds, r) == "season" \in ds.cols /\ r["season"].t # "str"

SeasonIs(ds, r, season) ==
    IF "season" \in ds.cols THEN r["season"].n = season ELSE season = 0

\* nflfastr.py:159, 187
WeekIs(ds, r, nv_week) ==
    ~("week" \in ds.cols /\ r["week"].t = "str" /\ r["week"].n # nv_week)

\* nflfastr.py:161
SeasonTypeIs(ds, r, season_type) ==
    ~("season_type" \in ds.cols /\ season_type # "" /\ r["season_type"] # season_type)

\* A mutant of StrictPass: the opponent is not looked at
StrictPassNoOpp(ds, r, g) ==
    /\ ~SeasonRaises(ds, r)
    /\ SeasonIs(ds, r, g.season)
    /\ WeekIs(ds, r, g.nv_week)
    /\ SeasonTypeIs(ds, r, g.season_type)
    /\ GetUpper(ds, r, g.team_key) \in {g.home_nv, g.away_nv}

\* nflfastr.py:154-179: g holds the translated arguments and the column names
StrictPass(ds, r, g) ==
    LET team == GetUpper(ds, r, g.team_key)
        opp == GetUpper(ds, r, g.opp_key)
        expected_opp == IF team = g.home_nv THEN g.away_nv ELSE g.home_nv
    IN  /\ ~SeasonRaises(ds, r)
        /\ SeasonIs(ds, r, g.season)
        /\ WeekIs(ds, r, g.nv_week)
        /\ SeasonTypeIs(ds, r, g.season_type)
        /\ team \in {g.home_nv, g.away_nv}
        /\ g.opp_key # "" => opp = expected_opp

\* nflfastr.py:183-193
LoosePass(ds, r, g) ==
    /\ ~SeasonRaises(ds, r)
    /\ SeasonIs(ds, r, g.season)
    /\ WeekIs(ds, r, g.nv_week)
    /\ GetUpper(ds, r, g.team_key) \in {g.home_nv, g.away_nv}

\* nflfastr.py:200-225: the tuple of one row; of the statistics, the passing
\* yards stand for the eight that are _to_int of one column
YieldOf(ds, r, g) ==
    LET team == GetUpper(ds, r, g.team_key)
    IN  [team |-> IF team \in DOMAIN TEAM_ALIAS_TO_ESPN THEN TEAM_ALIAS_TO_ESPN[team]
                  ELSE team,
         ext_id |-> IF "player_id" \in ds.cols THEN r["player_id"] ELSE "",
         stats |-> [passingYards |-> IF "passing_yards" \in ds.cols
                                     THEN _to_int(r["passing_yards"]) ELSE 0,
                    fumblesLost |-> _sum_ints(ds, r, FUMBLE_LOST_CANDIDATES)]]

RECURSIVE MapYield(_, _, _)
MapYield(ds, filtered, g) ==
    IF filtered = <<>> THEN <<>>
    ELSE <<YieldOf(ds, Head(filtered), g)>> \o MapYield(ds, Tail(filtered), g)

\* nflfastr.py:120-225
iter_players_for_game(ds, season, overall_week, home_abbr, away_abbr) ==
    LET tw == _convert_overall_to_nflverse(overall_week)
        g == [season |-> season, season_type |-> tw[1], nv_week |-> tw[2],
              home_nv |-> _to_nflverse_abbr(home_abbr),
              away_nv |-> _to_nflverse_abbr(away_abbr),
              team_key |-> _first_present_key(ds, TEAM_COLS),
              opp_key |-> _first_present_key(ds, OPP_COLS)]
        StrictTest(r) == StrictPass(ds, r, g)
        LooseTest(r) == LoosePass(ds, r, g)
        strict == SelectSeq(ds.recs, StrictTest)
        filtered == IF strict = <<>> THEN SelectSeq(ds.recs, LooseTest) ELSE strict
    IN  [yielded |-> MapYield(ds, filtered, g), fallback |-> strict = <<>>]

\* ---- the datasets and the calls of the model ----

MaxCsvRows == 2

CsvRow(id, season, week, season_type, team, opp, fl) ==
    [player_id |-> id, season |-> season, week |-> Str(week),
     season_type |-> season_type, team |-> team, opponent_team |-> opp,
     passing_yards |-> Str(250),
     rushing_fumbles_lost |-> fl[1], receiving_fumbles_lost |-> fl[2],
     sack_fumbles_lost |-> fl[3], fumbles_lost |-> fl[4]]

CsvRowPool ==
    { CsvRow("p1", Str(2024), 2, "REG", "WAS", "KC", <<Str(1), Str(0), Str(1), Str(2)>>),
      CsvRow("p2", Str(2024), 2, "REG", "KC", "WAS", <<Str(0), Str(1), Null, Str(1)>>),
      CsvRow("p3", Str(2024), 2, "REG", "JAX", "KC", <<Str(0), Str(0), Str(0), Str(0)>>),
      CsvRow("p4", Str(2024), 2, "REG", "KC", "DAL", <<Bad, Str(1), Str(0), Str(1)>>),
      CsvRow("p5", Str(2024), 2, "PRE", "KC", "WAS", <<Str(0), Str(0), Str(0), Str(0)>>),
      CsvRow("p6", Str(2024), 3, "REG", "LAC", "LV", <<Str(1), Str(1), Str(0), Str(2)>>),
      CsvRow("p7", Str(2023), 2, "REG", "KC", "WAS", <<Str(0), Str(0), Str(0), Str(0)>>),
      CsvRow("p8", Bad, 2, "REG", "KC", "WAS", <<Str(0), Str(0), Str(0), Str(0)>>),
      CsvRow("p9", Str(2024), 2, "REG", "LAR", "KC", <<Str(0), Str(0), Str(1), Str(1)>>) }

CsvHeaders ==
    { {"season", "week", "team", "player_id", "passing_yards"} \cup o \cup t \cup f :
        o \in {{}, {"opponent_team"}},
        t \in {{}, {"season_type"}},
        f \in { {},
                {"fumbles_lost"},
                {"rushing_fumbles_lost", "receiving_fumbles_lost", "sack_fumbles_lost"},
                {"rushing_fumbles_lost", "receiving_fumbles_lost", "sack_fumbles_lost",
                 "fumbles_lost"} } }

CsvSeqs(n) == UNION { [1..k -> CsvRowPool] : k \in 0..n }

Datasets == { [cols |-> h, recs |-> rs] : h \in CsvHeaders, rs \in CsvSeqs(MaxCsvRows) }

GameWeeks == {2, 5, 6}

GamePairs ==
    { <<h, a>> \in {"WSH", "JAC", "SD", "STL", "OAK", "LA", "KC"} \X {"KC", "OAK"} : h # a }

AdapterInit ==
    /\ csv_rows \in Datasets
    /\ args = NoGame
    /\ emitted = NoOut
    /\ CsvIdle /\ PointsIdle /\ ResolverIdle /\ DbIdle /\ ApiIdle /\ IngestIdle /\ CacheIdle /\ ScoresIdle

\* one call of iter_players_for_game, its generator run to the end; the
\* dataset is what _load_player_stats_csv returns at nflfastr.py:141, from the
\* cache or from a download that is then stored
IterPlayersForGame ==
    \E overall_week \in GameWeeks, pair \in GamePairs :
        /\ args = NoGame
        /\ args' = [season |-> 2024, overall_week |-> overall_week,
                    home_abbr |-> pair[1], away_abbr |-> pair[2]]
        /\ emitted' = iter_players_for_game(csv_rows, 2024, overall_week, pair[1], pair[2])
        /\ IF CsvFresh(2024)
           THEN UNCHANGED <<csv_cache, since>>
           ELSE /\ csv_cache' = [csv_cache EXCEPT ![2024] = [present |-> TRUE, age |-> 0]]
                /\ since' = [since EXCEPT ![2024] = 0]
        /\ UNCHANGED <<csv_rows, nonAdapterVars>>

AdapterNext == IterPlayersForGame

SpecAdapter == AdapterInit /\ [][AdapterNext]_vars

\* the two target teams, the translated week and the rows of the last call,
\* in the words of the filter policy
Targets == {_to_nflverse_abbr(args.home_abbr), _to_nflverse_abbr(args.away_abbr)}

TranslatedWeek == _convert_overall_to_nflverse(args.overall_week)

OfSeasonAndWeek(r) ==
    r.season = Str(args.season) /\ r.week = Str(TranslatedWeek[2])

OfSegment(r) ==
    "season_type" \in csv_rows.cols => r.season_type = TranslatedWeek[1]

OfTargetTeam(r) == r.team \in Targets

AgainstOtherTarget(r) ==
    "opponent_team" \in csv_rows.cols =>
        \E t \in Targets : t # r.team /\ r.opponent_team = t

StrictRows ==
    LET Test(r) == OfSeasonAndWeek(r) /\ OfSegment(r) /\ OfTargetTeam(r)
                   /\ AgainstOtherTarget(r)
    IN  SelectSeq(csv_rows.recs, Test)

PlayerIds(recs) == [i \in 1..Len(recs) |-> recs[i].player_id]

YieldedIds == [i \in 1..Len(emitted.yielded) |-> emitted.yielded[i].ext_id]

C16_TeamIsCallersCode ==
    args # NoGame =>
        \A i \in 1..Len(emitted.yielded) :
            emitted.yielded[i].team \in {args.home_abbr, args.away_abbr}

\* C17: fumblesLost of a yielded tuple is the row's fumbles_lost column when
\* the dataset has it, and else the sum of the granular columns it has.
C17_CombinedColumnWins ==
    args # NoGame =>
        \A i \in 1..Len(emitted.yielded) :
            \E j \in 1..Len(csv_rows.recs) :
                LET r == csv_rows.recs[j]
                    Granular(c) == IF c \in csv_rows.cols THEN _to_int(r[c]) ELSE 0
                IN  /\ r.player_id = emitted.yielded[i].ext_id
                    /\ emitted.yielded[i].stats.fumblesLost =
                         IF "fumbles_lost" \in csv_rows.cols THEN _to_int(r.fumbles_lost)
                         ELSE Granular("rushing_fumbles_lost")
                              + Granular("receiving_fumbles_lost")
                              + Granular("sack_fumbles_lost")

\* ------------------------------------------------------------------------
\* The scoring formula: fantasy.py, _points, applied to stat maps as the
\* resolver can yield them (numbers, numeric strings, None, other strings).
\* ------------------------------------------------------------------------

MaxStatKeys == 2

\* a rule with other weights than the seeded one (seed_basic.py:17-24)
HalfPPR ==
    [name |-> "Half PPR", pass_yd |-> 4, pass_td |-> 400, pass_int |-> -100,
     rush_yd |-> 10, rush_td |-> 600, rec_yd |-> 5, rec_td |-> 700,
     reception |-> 50, fumble_lost |-> -300]

PointsRules == {FullPPR, HalfPPR}

PointsKeys == {"receptions", "receivingYards", "fumblesLost", "sacks", "rec"}

PointsValues == {Num(3), Num(-2), Str(2), Null, Bad}

\* the dicts of up to n entries
StatMaps(n) ==
    { m \in UNION { [1..k -> [k : PointsKeys, v : PointsValues]] : k \in 0..n } :
        \A i, j \in 1..Len(m) : m[i].k = m[j].k => i = j }

\* {**first, **second}
RECURSIVE Merge(_, _)
Merge(first, second) ==
    IF second = <<>> THEN first
    ELSE Merge(DictSet(first, Head(second).k, Head(second).v), Tail(second))

\* fantasy.py:94-106: the call raises or returns
PointsOf(stats, R) ==
    IF PointsRaises(stats) THEN [raised |-> TRUE, value |-> 0]
    ELSE [raised |-> FALSE, value |-> _points(stats, R)]

PointsInit ==
    /\ stat_maps \in { <<m1, m2>> \in StatMaps(MaxStatKeys) \X StatMaps(1) :
                         \A i \in 1..Len(m1), j \in 1..Len(m2) : m1[i].k # m2[j].k }
    /\ rule \in PointsRules
    /\ points = NoPoints
    /\ CsvIdle /\ AdapterIdle /\ ResolverIdle /\ DbIdle /\ ApiIdle /\ IngestIdle /\ CacheIdle /\ ScoresIdle

Points ==
    /\ points = NoPoints
    /\ points' = [first |-> PointsOf(stat_maps[1], rule),
                  second |-> PointsOf(stat_maps[2], rule),
                  merged |-> PointsOf(Merge(stat_maps[1], stat_maps[2]), rule)]
    /\ UNCHANGED <<stat_maps, rule, nonPointsVars>>

PointsNext == Points

SpecPoints == PointsInit /\ [][PointsNext]_vars

\* the weight a rule gives to a canonical key
WeightOf(R, k) ==
    CASE k = "passingYards" -> R.pass_yd
      [] k = "passingTouchdowns" -> R.pass_td
      [] k = "interceptions" -> R.pass_int
      [] k = "rushingYards" -> R.rush_yd
      [] k = "rushingTouchdowns" -> R.rush_td
      [] k = "receivingYards" -> R.rec_yd
      [] k = "receivingTouchdowns" -> R.rec_td
      [] k = "receptions" -> R.reception
      [] k = "fumblesLost" -> R.fumble_lost

\* the entries of a map under canonical keys, and whether they are all numbers
CanonicalPart(m) == SelectSeq(m, LAMBDA e : e.k \in CanonicalKeySet)

Numeric(m) == \A i \in 1..Len(m) : m[i].k \in CanonicalKeySet => m[i].v.t \in {"num", "str", "null"}

RECURSIVE WeightedSum(_, _)
WeightedSum(m, R) ==
    IF m = <<>> THEN 0
    ELSE (IF Head(m).k \in CanonicalKeySet THEN WeightOf(R, Head(m).k) * Head(m).v.n ELSE 0)
         + WeightedSum(Tail(m), R)

\* C18: the points of a map whose canonical values are numbers are the sum,
\* over the canonical keys the map has, of weight times value; the entries
\* under other keys change nothing, the empty map has 0 points, and the points
\* of the union of two maps without a common key are the sum of their points.
C18_PointsLinear ==
    points # NoPoints =>
        LET m1 == stat_maps[1]
            m2 == stat_maps[2]
        IN  /\ \A which \in {"first", "second", "merged"} :
                 LET m == CASE which = "first" -> m1
                            [] which = "second" -> m2
                            [] OTHER -> Merge(m1, m2)
                 IN  Numeric(m) =>
                       /\ ~points[which].raised
                       /\ points[which].value = WeightedSum(m, rule)
                       /\ points[which] = PointsOf(CanonicalPart(m), rule)
                       /\ m = <<>> => points[which].value = 0
            /\ (Numeric(m1) /\ Numeric(m2)) =>
                 points.merged.value = points.first.value + points.second.value

\* the points of a union of two maps that both count, one of them with an
\* entry under a key that is not canonical
C18_Witness ==
    /\ points # NoPoints
    /\ ~points.merged.raised
    /\ points.first.value # 0 /\ points.second.value # 0
    /\ \E i \in 1..Len(stat_maps[1]) : stat_maps[1][i].k \notin CanonicalKeySet
    /\ rule = HalfPPR

\* C19: a scoring request for an event id with no persisted game is answered
\* 404, no upstream request is issued for it, and no player and no statistic
\* row (nor any other row) is created or changed.
C19_ScoreUnsavedGame ==
    [][ (response'.op = "score"
           /\ ~Persisted(db, "games", <<response'.event_id>>)) =>
            /\ response'.code = 404
            /\ ~response'.fetched
            /\ db'.players = db.players
            /\ db'.player_stats = db.player_stats
            /\ db' = db ]_vars

\* a game that was never saved was asked to be scored, the rule being seeded
C19_Witness ==
    /\ response.op = "score" /\ response.event_id = "E3" /\ response.code = 404
    /\ \E R \in db.scoring_rules : R.name = "Full PPR"
    /\ Persisted(db, "games", <<"E1">>)

\* C20 as stated: while no rule named "Full PPR" exists, every scoring request
\* fails with the configuration error and writes nothing.
C20_AlwaysConfigurationError ==
    [][ (response'.op = "score" /\ ~\E R \in db.scoring_rules : R.name = "Full PPR") =>
            /\ response'.code = 500
            /\ response'.detail = "Full PPR rule missing"
            /\ db' = db ]_vars

\* C20, amended: while no rule named "Full PPR" exists, every scoring request
\* fails and writes nothing: with 404 and no fetch when the game is not
\* persisted, with the fetch error when the summary fetch fails, and else with
\* the configuration error; and no statistic row is ever persisted.
C20_FailsBeforeAnyWrite ==
    [][ (~\E R \in db.scoring_rules : R.name = "Full PPR") =>
           /\ db.player_stats = {} /\ db'.player_stats = {}
           /\ response'.op = "score" =>
                /\ db' = db
                /\ response'.parsed = 0
                /\ IF ~Persisted(db, "games", <<response'.event_id>>)
                   THEN response'.code = 404 /\ ~response'.fetched
                   ELSE /\ response'.code = 500
                        /\ response'.fetched
                        /\ response'.detail \in {"ESPN summary fetch failed",
                                                 "Full PPR rule missing"} ]_vars

\* a saved game was asked to be scored without the rule: configuration error
C20_Witness ==
    /\ response.op = "score" /\ response.code = 500
    /\ response.detail = "Full PPR rule missing"
    /\ Persisted(db, "games", <<response.event_id>>)
    /\ db.scoring_rules = {}

\* C21: a save request whose payload lacks load-bearing data is answered 400
\* and changes no persisted row.
C21_DefectivePayloadRejected ==
    [][ (response'.op = "save" /\ response'.defect) =>
            /\ response'.code = 400
            /\ db' = db ]_vars

\* a payload with two teams and no away role was refused after a season and
\* two teams had been added to the session, and none of them is persisted
C21_Witness ==
    /\ response.op = "save" /\ response.defect /\ response.code = 400
    /\ response.detail = "Home/Away not found"
    /\ db.teams = {} /\ db.seasons = {}

\* C22: a save request whose payload has a kickoff date that lies in no week
\* range gets an explicit "no match": it writes no game row, neither a new one
\* nor a changed one, under a defaulted overall_week.
C22_NoMatchNotDefaulted ==
    [][ (response'.op = "save" /\ response'.nowindow) =>
            db'.games = db.games ]_vars

\* the week windows on their own: a start of week 1 and two weeks
WeeksInit ==
    /\ \E d \in Week1Starts, w1 \in OverallWeeks, w2 \in OverallWeeks :
         week_ranges = [pc |-> "called", week1_start |-> d, weeks |-> <<w1, w2>>,
                        ranges |-> <<>>]
    /\ NormalizeIdle
    /\ ResolverIdle /\ DbIdle /\ ApiIdle /\ IngestIdle /\ CacheIdle /\ NflfastrIdle

\* scores.py:196: the range of the next week asked for is computed
CustomWeekRange ==
    /\ week_ranges.pc = "called"
    /\ LET n == Len(week_ranges.ranges) + 1
           r == _custom_week_range(week_ranges.week1_start, week_ranges.weeks[n])
       IN  week_ranges' = [week_ranges EXCEPT
                              !.ranges = Append(@, r),
                              !.pc = IF n = Len(week_ranges.weeks) THEN "done" ELSE "called"]
    /\ UNCHANGED nonWeeksVars

WeeksNext == CustomWeekRange

SpecWeeks == WeeksInit /\ [][WeeksNext]_vars

\* the days of a range
Span(r) == r[2] - r[1] + 1

\* C23: whatever the start of week 1, the range of a week w >= 1 ends before the
\* range of a later week starts; the range of week 1 has 14 days and starts at
\* the start of week 1, and the range of a week from 2 on has 7 days, from a
\* Wednesday to the Tuesday that follows.
C23_WindowsDisjoint ==
    week_ranges.pc = "done" =>
        LET w == week_ranges.weeks
            r == week_ranges.ranges
        IN  /\ (1 <= w[1] /\ w[1] < w[2]) => r[1][2] < r[2][1]
            /\ \A i \in 1..2 :
                 /\ w[i] = 1 => Span(r[i]) = 14 /\ r[i][1] = week_ranges.week1_start
                 /\ w[i] >= 2 => /\ Span(r[i]) = 7
                                 /\ Weekday(r[i][1]) = Wednesday
                                 /\ Weekday(r[i][2]) = Tuesday

\* week 1 starts on a Wednesday, so that the day after it ends is the Wednesday
\* on which week 2 starts, and the two weeks asked for are 1 and 2
C23_Witness ==
    /\ week_ranges.pc = "done"
    /\ week_ranges.weeks = <<1, 2>>
    /\ Weekday(week_ranges.week1_start) = Wednesday
    /\ week_ranges.ranges[1][2] + 1 = week_ranges.ranges[2][1]

\* ---------------------------------------------------------------------------
\* Scoreboard normalizer (scores.py: _normalize)
\*
\* An event of the upstream scoreboard is a record: id, competitions (whether
\* the list has a first competition), the competitors of that competition, the
\* state, displayClock and period of its status (period 0: absent) and date
\* ("ok": an ISO date, "bad", "" when absent).  A competitor has homeAway ("" when
\* absent), the abbreviation and shortDisplayName of its team ("" when absent)
\* and a score, a JSON value.
\* ---------------------------------------------------------------------------

NComp(homeAway, abbreviation, shortDisplayName, sc) ==
    [homeAway |-> homeAway, abbreviation |-> abbreviation,
     shortDisplayName |-> shortDisplayName, score |-> sc]

NEvent(competitors, state, displayClock, period, date) ==
    [id |-> "", competitions |-> TRUE, competitors |-> competitors, state |-> state,
     displayClock |-> displayClock, period |-> period, date |-> date]

\* scores.py:126-127: (ev.get("competitions") or [{}])[0], then its competitors
Competitors(ev) == IF ev.competitions THEN ev.competitors ELSE <<>>

\* A mutant of TwoCompetitors: the count is not looked at
AnyCompetitors(cs) == TRUE

\* scores.py:128
TwoCompetitors(cs) == Len(cs) = 2

\* next((c for c in comps if c.get("homeAway") == tag), default)
NextTagged(cs, tag, default) ==
    IF \E i \in 1..Len(cs) : cs[i].homeAway = tag
    THEN cs[CHOOSE i \in 1..Len(cs) :
               /\ cs[i].homeAway = tag
               /\ \A j \in 1..(i - 1) : cs[j].homeAway # tag]
    ELSE default

\* scores.py:131
HomeOf(cs) == NextTagged(cs, "home", cs[1])

\* scores.py:132
AwayOf(cs) == NextTagged(cs, "away", cs[Len(cs)])

\* scores.py:134-136
TeamAbbr(c) ==
    IF c.abbreviation # "" THEN c.abbreviation
    ELSE IF c.shortDisplayName # "" THEN c.shortDisplayName
    ELSE "UNK"

NoScore == [none |-> TRUE, n |-> 0]

\* A mutant of ScoreOf: without the "or 0", a missing score is None
ScoreOrNone(c) ==
    IF c.score.t \in {"num", "str"} THEN [none |-> FALSE, n |-> c.score.n] ELSE NoScore

\* scores.py:138-142: int(c.get("score") or 0), None when int() raises
ScoreOf(c) ==
    CASE c.score.t = "null" -> [none |-> FALSE, n |-> 0]
      [] c.score.t \in {"num", "str"} -> [none |-> FALSE, n |-> c.score.n]
      [] OTHER -> NoScore

\* scores.py:158: f"Q{period}" if period else ""
QuarterLabel(period) ==
    IF period = 0 THEN "" ELSE <<"Q1", "Q2", "Q3", "Q4", "Q5">>[period]

\* f"{q} {display_clock}".strip(), neither part having blanks
Stripped(q, display_clock) ==
    IF q = "" THEN display_clock
    ELSE IF display_clock = "" THEN q
    ELSE q \o " " \o display_clock

\* A mutant of PrettyStatusIn: an empty clock alone gives the generic string
PrettyStatusByClock(period, display_clock) ==
    IF display_clock = "" THEN "In Progress"
    ELSE Stripped(QuarterLabel(period), display_clock)

\* scores.py:158-159
PrettyStatusIn(period, display_clock) ==
    IF Stripped(QuarterLabel(period), display_clock) = "" THEN "In Progress"
    ELSE Stripped(QuarterLabel(period), display_clock)

\* scores.py:149-155: the kickoff in Central Time, whatever the date
KickoffCT == "Sep 05, 07:20 PM CT"

\* scores.py:149-176: the game of an event that has competitors
GameOf(ev) ==
    LET cs == Competitors(ev)
        h == HomeOf(cs)
        a == AwayOf(cs)
        scored_state == ev.state \in {"in", "post"}
    IN  [id |-> ev.id,
         away |-> TeamAbbr(a),
         home |-> TeamAbbr(h),
         awayScore |-> IF scored_state THEN ScoreOf(a) ELSE NoScore,
         homeScore |-> IF scored_state THEN ScoreOf(h) ELSE NoScore,
         status |-> CASE ev.state = "pre" ->
                           IF ev.date = "ok" THEN KickoffCT ELSE "Pregame"
                      [] ev.state = "in" -> PrettyStatusIn(ev.period, ev.displayClock)
                      [] ev.state = "post" -> "Final"
                      [] OTHER -> "Status Unknown"]

\* scores.py:123-184: the loop over the events; comps[0] of line 131 raises
\* IndexError when there is no competitor
RECURSIVE NormalizeFrom(_, _, _)
NormalizeFrom(evs, i, games) ==
    IF i > Len(evs) THEN [raised |-> FALSE, games |-> games]
    ELSE IF ~TwoCompetitors(Competitors(evs[i])) THEN NormalizeFrom(evs, i + 1, games)
    ELSE IF Competitors(evs[i]) = <<>> THEN [raised |-> TRUE, games |-> games]
    ELSE NormalizeFrom(evs, i + 1, Append(games, GameOf(evs[i])))

_normalize(evs) == NormalizeFrom(evs, 1, <<>>)

Tags == {"home", "away", ""}

TagEvents ==
    { NEvent(<<NComp(t1, "KC", "Chiefs", Str(21)), NComp(t2, "SF", "49ers", Str(7))>>,
             "post", "", 0, "ok") : t1 \in Tags, t2 \in Tags }

ClockEvents ==
    { NEvent(<<NComp("home", "KC", "Chiefs", Str(21)), NComp("away", "SF", "", Str(7))>>,
             "in", c, p, "ok") : c \in {"", "12:34"}, p \in {0, 2} }

ScoreEvents ==
    { NEvent(<<NComp("home", "KC", "", sc[1]), NComp("away", "", "", sc[2])>>,
             st, "", 0, d) :
        st \in {"pre", "in", "post", "postponed"},
        sc \in {<<Null, Bad>>, <<Str(0), Num(3)>>, <<Comma(1), Str(21)>>},
        d \in {"ok"} }
    \cup { NEvent(<<NComp("home", "KC", "", Null), NComp("away", "", "", Null)>>,
                  "pre", "", 0, d) : d \in {"bad", ""} }

CountEvents ==
    { [NEvent(<<>>, "post", "", 0, "ok") EXCEPT !.competitions = FALSE],
      NEvent(<<>>, "post", "", 0, "ok"),
      NEvent(<<NComp("home", "KC", "", Str(21))>>, "post", "", 0, "ok"),
      NEvent(<<NComp("home", "KC", "", Str(21)), NComp("away", "SF", "", Str(7)),
               NComp("", "DAL", "", Str(3))>>, "post", "", 0, "ok") }

NEvents == TagEvents \cup ClockEvents \cup ScoreEvents \cup CountEvents

\* bound of the model: the events of a scoreboard
MaxBoard == 2

\* the scoreboards: the i-th event has the i-th id
Boards ==
    UNION { { [i \in 1..n |-> [f[i] EXCEPT !.id = EventIds[i]]] : f \in [1..n -> NEvents] } :
            n \in 0..MaxBoard }

NormalizeInit ==
    /\ espn_json \in Boards
    /\ scores_payload = NoGames
    /\ WeeksIdle
    /\ ResolverIdle /\ DbIdle /\ ApiIdle /\ IngestIdle /\ CacheIdle /\ NflfastrIdle

\* scores.py:123-184
Normalize ==
    /\ scores_payload.pc = "idle"
    /\ LET r == _normalize(espn_json)
       IN  scores_payload' = [pc |-> IF r.raised THEN "raised" ELSE "returned",
                              games |-> r.games]
    /\ UNCHANGED <<espn_json, nonNormalizeVars>>

NormalizeNext == Normalize

SpecNormalize == NormalizeInit /\ [][NormalizeNext]_vars

\* the events that have exactly two competitors, in the order of the scoreboard
TwoSided == SelectSeq(espn_json, LAMBDA ev : Len(Competitors(ev)) = 2)

\* C24: _normalize returns, and its games are those of the events that have
\* exactly two competitors, one game each and in the order of the events; an
\* event with another number of competitors gives no game and no exception.
C24_OneGamePerTwoSidedEvent ==
    scores_payload.pc # "idle" =>
        /\ scores_payload.pc = "returned"
        /\ Len(scores_payload.games) = Len(TwoSided)
        /\ \A i \in 1..Len(TwoSided) : scores_payload.games[i].id = TwoSided[i].id

\* an event without competitors, then one with two: one game, of the second
C24_Witness ==
    /\ scores_payload.pc = "returned"
    /\ Len(espn_json) = 2
    /\ Competitors(espn_json[1]) = <<>>
    /\ Len(Competitors(espn_json[2])) = 2
    /\ Len(scores_payload.games) = 1
    /\ scores_payload.games[1].id = "E2"

\* the event a game was made of (the ids of a scoreboard differ)
EventOf(g) == espn_json[CHOOSE i \in 1..Len(espn_json) : espn_json[i].id = g.id]

GamesIn(state) ==
    { i \in 1..Len(scores_payload.games) : EventOf(scores_payload.games[i]).state = state }

\* C25 as stated: the status of a game in state "in" is the quarter label plus
\* the clock, and it is "In Progress" whenever the clock is empty, a period
\* being known or not.
C25_EmptyClockInProgress ==
    \A i \in GamesIn("in") :
        LET g == scores_payload.games[i]
            ev == EventOf(g)
        IN  IF ev.displayClock = "" THEN g.status = "In Progress"
            ELSE g.status = Stripped(QuarterLabel(ev.period), ev.displayClock)

\* C25: the status of a game in state "in" is the quarter label, a blank and the
\* clock; the clock alone when no period is known; the quarter label alone when
\* the clock is empty; and "In Progress" when the clock is empty and no period
\* is known.
C25_InStatus ==
    \A i \in GamesIn("in") :
        LET g == scores_payload.games[i]
            ev == EventOf(g)
        IN  /\ (ev.displayClock # "" /\ ev.period # 0) =>
                   g.status = QuarterLabel(ev.period) \o " " \o ev.displayClock
            /\ (ev.displayClock # "" /\ ev.period = 0) => g.status = ev.displayClock
            /\ (ev.displayClock = "" /\ ev.period # 0) => g.status = QuarterLabel(ev.period)
            /\ (ev.displayClock = "" /\ ev.period = 0) => g.status = "In Progress"

\* a game in its second quarter whose clock is empty has status "Q2"
C25_Witness ==
    \E i \in GamesIn("in") :
        /\ EventOf(scores_payload.games[i]).displayClock = ""
        /\ EventOf(scores_payload.games[i]).period = 2
        /\ scores_payload.games[i].status = "Q2"

\* what int() makes of a score field, None when it raises or the field is missing
Parsed(v) == IF v.t \in {"num", "str"} THEN [none |-> FALSE, n |-> v.n] ELSE NoScore

\* C26 as stated: both scores are null in state pre; in every other state each
\* score is the integer parsed from the score field of its competitor, null when
\* the field is missing or is no integer.
C26_MissingScoreNull ==
    \A i \in 1..Len(scores_payload.games) :
        LET g == scores_payload.games[i]
            ev == EventOf(g)
        IN  IF ev.state = "pre"
            THEN g.homeScore = NoScore /\ g.awayScore = NoScore
            ELSE /\ g.homeScore = Parsed(HomeOf(Competitors(ev)).score)
                 /\ g.awayScore = Parsed(AwayOf(Competitors(ev)).score)

\* what a score field is worth in the states in and post
Worth(v) == IF v.t = "null" THEN [none |-> FALSE, n |-> 0] ELSE Parsed(v)

\* C26: both scores are null in state pre and in every state other than in and
\* post; in the states in and post each score is the integer parsed from the
\* score field of its competitor, 0 when the field is missing and null when it
\* is no integer.
C26_ScoresByState ==
    \A i \in 1..Len(scores_payload.games) :
        LET g == scores_payload.games[i]
            ev == EventOf(g)
        IN  IF ev.state \in {"in", "post"}
            THEN /\ g.homeScore = Worth(HomeOf(Competitors(ev)).score)
                 /\ g.awayScore = Worth(AwayOf(Competitors(ev)).score)
            ELSE g.homeScore = NoScore /\ g.awayScore = NoScore

\* a final game whose home score is missing and whose away score is no integer:
\* 0 and null; and a game of an unknown state, without scores
C26_Witness ==
    /\ \E i \in GamesIn("post") :
         /\ HomeOf(Competitors(EventOf(scores_payload.games[i]))).score = Null
         /\ AwayOf(Competitors(EventOf(scores_payload.games[i]))).score = Bad
         /\ scores_payload.games[i].homeScore = [none |-> FALSE, n |-> 0]
         /\ scores_payload.games[i].awayScore = NoScore
    /\ \E i \in GamesIn("postponed") :
         /\ AwayOf(Competitors(EventOf(scores_payload.games[i]))).score = Num(3)
         /\ scores_payload.games[i].awayScore = NoScore

\* C27: the home side and the away side of every game are the two competitors
\* of its event, one each, whatever the role tags of the two.
C27_TwoDifferentSides ==
    \A i \in 1..Len(scores_payload.games) :
        LET g == scores_payload.games[i]
            cs == Competitors(EventOf(g))
        IN  /\ TeamAbbr(cs[1]) # TeamAbbr(cs[2])
            /\ {g.home, g.away} = {TeamAbbr(cs[1]), TeamAbbr(cs[2])}

\* C28: every game that ingest_week(year, week) saved has, once its save is
\* committed, a row with overall_week = week and with the season of year.
C28_StoredUnderRequest ==
    \A i \in 1..Len(glog) :
        glog[i].save = "ok" =>
            \E g \in glog[i].mid.games :
                /\ g.event_id = glog[i].event_id
                /\ g.overall_week = request.week
                /\ g.year = request.year

\* how often an event id is in a list of the report
TimesIn(event_id, ids) == Cardinality({ i \in 1..Len(ids) : ids[i] = event_id })

\* the event ids of the entries of scored, or of errors
IdsOf(entries) == [i \in 1..Len(entries) |-> entries[i].event_id]

\* C29: in the report of ingest_week every event id is, with score=true, in
\* exactly one of scored and errors and, with score=false, in exactly one of
\* saved and errors; every scored id is in saved; and an id is in saved and in
\* errors only if its save was committed and its scoring then failed.
C29_ReportPartition ==
    ipc = "done" =>
        \A n \in 1..Len(events) :
            LET id == events[n]
            IN  /\ do_score => TimesIn(id, IdsOf(scored)) + TimesIn(id, IdsOf(errors)) = 1
                /\ ~do_score => TimesIn(id, saved) + TimesIn(id, IdsOf(errors)) = 1
                /\ TimesIn(id, IdsOf(scored)) > 0 => TimesIn(id, saved) > 0
                /\ (TimesIn(id, saved) > 0 /\ TimesIn(id, IdsOf(errors)) > 0) =>
                       \E k \in 1..Len(glog) :
                           /\ glog[k].event_id = id
                           /\ glog[k].save = "ok"
                           /\ \E g \in glog[k].mid.games : g.event_id = id
                           /\ glog[k].score \in {"raised", "commit"}

\* a report with a game saved and scored, a game saved whose scoring failed and
\* a game whose save failed
C29_Witness ==
    /\ ipc = "done" /\ do_score
    /\ \E a \in 1..Len(events) :
         TimesIn(events[a], IdsOf(scored)) = 1 /\ TimesIn(events[a], IdsOf(errors)) = 0
    /\ \E b \in 1..Len(events) :
         TimesIn(events[b], saved) = 1 /\ TimesIn(events[b], IdsOf(errors)) = 1
    /\ \E c \in 1..Len(events) :
         TimesIn(events[c], saved) = 0 /\ TimesIn(events[c], IdsOf(errors)) = 1

\* C30: when a call gives up and returns the stale entry, the cache is left as
\* it was: the label of the entry is the one upstream gave and the entry is
\* still expired, so that the label returned is annotated once, however many
\* refreshes failed before, and a call that follows is not answered from the
\* entry but refreshes it or waits for the lock.
C30_StaleLeavesCache ==
    [][ \A c \in Callers :
          /\ (callers[c].pc = "sleep" /\ callers'[c].pc = "done"
              /\ callers'[c].result = "data") =>
                 /\ cache' = cache
                 /\ cache'[callers[c].key].source = FreshSource
                 /\ cache'[callers[c].key].left = 0
                 /\ callers'[c].source = StaleSource
          /\ (callers[c].pc = "idle" /\ callers'[c].pc # "idle"
              /\ cache[callers'[c].key].present /\ cache[callers'[c].key].left = 0) =>
                 callers'[c].pc \in {"fetch", "wait"} ]_vars

\* two calls in a row have given up, the second after waiting for the first,
\* and both were given the label annotated once
C30_Witness ==
    /\ \A c \in {1, 2} :
         /\ callers[c].pc = "done"
         /\ callers[c].result = "data"
         /\ callers[c].source = StaleSource
    /\ \E c \in {1, 2} : callers[c].waited
    /\ cache["current"].source = FreshSource
    /\ cache["current"].left = 0

====
